---- MODULE Spec2Model ----
(***************************************************************************)
(* clickOR: the block scheduler (solver.py), the bumper selector           *)
(* (bumpers.py), the playlist assembler (generate.py) and the verifier     *)
(* (verify.py), as one state machine.                                      *)
(*                                                                         *)
(* A run is solve_to_yaml_obj followed by verify_yaml_against_config:      *)
(*   start -> phase2 -> assemble -> built -> verified, or -> error.        *)
(* config.load_config (load -> start, or -> error) and                     *)
(* flat.expand_flat_to_playlist_entries (flat -> expanded) are modelled as *)
(* runs of their own.                                                      *)
(* The CP-SAT engine is external: each Solve is a choice among the         *)
(* statuses and assignments the engine may return for the model the code   *)
(* builds.  random.shuffle is a choice among the permutations of the bag.  *)
(***************************************************************************)
EXTENDS Integers, Sequences, FiniteSets, TLC

VARIABLES
    cfg,         \* ChannelConfig handed to solve_to_yaml_obj
    pc,          \* position of the run
    err,         \* which error ended the run ("" when none)
    status1,     \* CP-SAT status of Phase 1
    min_blocks,  \* objective value of Phase 1
    blocks,      \* SolveResult.blocks
    repeats_used,
    total_waste_s,
    sel,         \* BumperSelector state: _rr_index, _bag and _last_path per pool
    entries,     \* playlist entries (paths) emitted so far
    next_block,  \* number of blocks of the result already assembled
    findings,    \* ERROR findings of the verifier
    seeds,       \* the seeds handed to CP-SAT, to the tie-breaker, to SolveResult
    str_hash,    \* hash(name) & 0xFFFFFFFF in this process, per bumper pool
    prev,        \* an earlier run on the same config and seed, in its own process
    raw,         \* the document load_config reads
    flat_cfg,    \* FlatConfig handed to expand_flat_to_playlist_entries
    probe,       \* its probe: the duration of each path
    flat_entries, \* the PlaylistEntry list it returns
    cli_cfg,     \* cmd_solve: the config it loaded, seed replaced
    args,        \* cmd_solve: the solver settings given on the command line
    tie,         \* Phase 2: the tie-breaker weights w of rng.randint(0, 3)
    status2,     \* Phase 2: CP-SAT status
    sol          \* Phase 2: the solution CP-SAT returned

\* the variables of a solve run, of the process around it, of load_config
\* and of the flat expansion
run_vars == <<cfg, pc, err, status1, min_blocks, blocks, repeats_used,
              total_waste_s, sel, entries, next_block, findings, seeds>>
process_vars == <<str_hash, prev>>
flat_vars == <<flat_cfg, probe, flat_entries>>
cli_vars == <<cli_cfg, args>>
phase2_vars == <<tie, status2, sol>>

vars == <<run_vars, process_vars, raw, flat_vars, cli_vars, phase2_vars>>

----------------------------------------------------------------------------
(* Bounds of the model. *)

MaxItems == 3        \* content items of a generated config
MaxDur == 3          \* longest content duration of a generated config
MaxThrees == 2       \* packing configs: items of duration 3
MaxTwos == 4         \* packing configs: items of duration 2
MaxBumperPool == 3   \* items of a bumper pool
MaxBreakBlocks == 3  \* blocks (hence breaks) of a bumper config
MaxHash == 1         \* largest value of hash(name) & 0xFFFFFFFF
MaxFlatItems == 2    \* items of a flat config
MaxProbe == 3        \* longest probed duration of a flat item
MaxLoopTo == 4       \* largest loop target of a flat config
MaxRawItems == 2     \* items of a pool in a raw config document
MaxPlaylist == 4     \* entries of a playlist handed to the verifier

None == -1

----------------------------------------------------------------------------
(* Helpers. *)

Range(s) == {s[i] : i \in 1..Len(s)}

RECURSIVE SumSeq(_)
SumSeq(s) == IF s = <<>> THEN 0 ELSE Head(s) + SumSeq(Tail(s))

RECURSIVE SumOver(_, _)
\* sum of f[x] for x in the finite set S
SumOver(S, f) ==
    IF S = {} THEN 0
    ELSE LET x == CHOOSE y \in S : TRUE IN f[x] + SumOver(S \ {x}, f)

\* the elements of the set of integers S in ascending order
RECURSIVE Ascending(_)
Ascending(S) ==
    IF S = {} THEN <<>>
    ELSE LET m == CHOOSE x \in S : \A y \in S : x <= y
         IN <<m>> \o Ascending(S \ {m})

\* the orders a sequence can be put in
Orderings(s) ==
    {[i \in 1..Len(s) |-> s[p[i]]] :
        p \in {q \in [1..Len(s) -> 1..Len(s)] :
                  \A i, j \in 1..Len(s) : i # j => q[i] # q[j]}}

\* lexicographic order on pairs
PairLess(a, b) == a[1] < b[1] \/ (a[1] = b[1] /\ a[2] < b[2])

----------------------------------------------------------------------------
(* The data model (model.py) as config.load_config builds it. *)

\* A path is an opaque name; the only part of it the program reads is the
\* first SxxExx token, <<season, episode>>, or <<>> when it holds none.
Path(name, n, sxxexx) == [name |-> name, n |-> n, sxxexx |-> sxxexx]

\* tv.parse_sxxexx: the (season, episode) of the first token, or None.
NoEpisodeId == [season |-> None, episode |-> None]

parse_sxxexx(path) ==
    IF path.sxxexx = <<>> THEN NoEpisodeId
    ELSE [season |-> path.sxxexx[1], episode |-> path.sxxexx[2]]

PoolConfig(name, sequential) == [name |-> name, sequential |-> sequential]

\* One Item as load_config appends it: season and episode are parsed from
\* the path when the pool is sequential and stay None otherwise.
Item(pool, path, duration_s, repeatable, max_extra_uses) ==
    LET eid == parse_sxxexx(path) IN
    [path |-> path, duration_s |-> duration_s, pool |-> pool.name,
     repeatable |-> repeatable, max_extra_uses |-> max_extra_uses,
     season |-> IF pool.sequential THEN eid.season ELSE None,
     episode |-> IF pool.sequential THEN eid.episode ELSE None]

BumperItem(pool_name, j) ==
    [path |-> Path(pool_name, j, <<>>), duration_s |-> 1]

BumperPoolConfig(name, weight, size) ==
    [name |-> name, weight |-> weight,
     items |-> [j \in 1..size |-> BumperItem(name, j)]]

BumpersConfig(slots_per_break, mixing_strategy, pools) ==
    [slots_per_break |-> slots_per_break, mixing_strategy |-> mixing_strategy,
     pools |-> pools]

SolverConfig(block_s, longform_consumes_block, allow_short_overflow_s, seed) ==
    [block_s |-> block_s, longform_consumes_block |-> longform_consumes_block,
     allow_short_overflow_s |-> allow_short_overflow_s, seed |-> seed]

ChannelConfig(solver, bumpers, pools, items) ==
    [solver |-> solver, bumpers |-> bumpers, pools |-> pools, items |-> items]

----------------------------------------------------------------------------
(* The configs the runs start from.  Every one is a config load_config      *)
(* accepts: paths are pairwise distinct, sequential items carry SxxExx,     *)
(* slots_per_break >= 1, every pool and every bumper pool is non-empty.     *)

PoolP == PoolConfig("p", FALSE)
PoolTv == PoolConfig("tv", TRUE)

OneBumper == BumpersConfig(1, "round_robin", <<BumperPoolConfig("ids", 1, 1)>>)

\* A repeat plan <<r, m>> makes the first r listed items repeatable with
\* max_extra_uses = m; the others are not repeatable.
RepeatPlans == {<<0, 0>>, <<1, 1>>, <<1, 2>>, <<2, 1>>}

Repeatable(plan, i) == i <= plan[1]
MaxExtraUses(plan, i) == IF i <= plan[1] THEN plan[2] ELSE 0

\* Pool-p configs: up to MaxItems items of pool p listed by nondecreasing
\* duration 1..MaxDur, block_s = MaxDur, with and without the long-form flag
\* and the overflow allowance.
MixItems(ds, plan) ==
    [i \in DOMAIN ds |->
        Item(PoolP, Path("p", i, <<>>), ds[i], Repeatable(plan, i), MaxExtraUses(plan, i))]

MixConfigs ==
    {ChannelConfig(SolverConfig(MaxDur, t[1], t[2], 1), OneBumper, <<PoolP>>,
                   MixItems(ds, plan)) :
        t \in {<<TRUE, 0>>, <<TRUE, 1>>, <<FALSE, 0>>},
        plan \in RepeatPlans,
        ds \in {d \in UNION {[1..m -> 1..MaxDur] : m \in 1..MaxItems} :
                  \A i \in DOMAIN d : (i + 1) \in DOMAIN d => d[i] <= d[i + 1]}}

\* Sequential configs: up to MaxItems episodes S01E01 / S01E02 of pool tv in
\* any listing order, each of duration 1 or block_s = MaxDur (long-form).
SeqItems(ks, plan) ==
    [i \in DOMAIN ks |->
        Item(PoolTv, Path("tv", i, <<1, ks[i][2]>>), ks[i][1],
             Repeatable(plan, i), MaxExtraUses(plan, i))]

SeqConfigs ==
    {ChannelConfig(SolverConfig(MaxDur, TRUE, 0, 1), OneBumper, <<PoolTv>>,
                   SeqItems(ks, plan)) :
        plan \in RepeatPlans,
        ks \in UNION {[1..m -> {1, MaxDur} \X (1..2)] : m \in 1..MaxItems}}

\* Packing configs: n3 items of duration 3 then n2 items of duration 2 in
\* pool p, block_s = 7: First-Fit-Decreasing is not optimal on some of them.
PackItems(n3, n2) ==
    [i \in 1..(n3 + n2) |->
        Item(PoolP, Path("p", i, <<>>), IF i <= n3 THEN 3 ELSE 2, FALSE, 0)]

PackConfigs ==
    {ChannelConfig(SolverConfig(7, TRUE, 0, 1), OneBumper, <<PoolP>>,
                   PackItems(n3, n2)) :
        <<n3, n2>> \in ((0..MaxThrees) \X (0..MaxTwos)) \ {<<0, 0>>}}

\* Bumper configs: k episodes of duration block_s, one solo block each, and
\* one or two bumper pools of up to MaxBumperPool items.
EpisodeItems(k) ==
    [i \in 1..k |-> Item(PoolTv, Path("tv", i, <<1, i>>), MaxDur, FALSE, 0)]

BumperPoolSets ==
    {<<BumperPoolConfig("ids", 1, m)>> : m \in 1..MaxBumperPool}
    \cup {<<BumperPoolConfig("ids", 1, m), BumperPoolConfig("promos", 1, 2)>> :
            m \in 1..MaxBumperPool}

BumperConfigs ==
    {ChannelConfig(SolverConfig(MaxDur, TRUE, 0, seed),
                   BumpersConfig(slots, "round_robin", bp), <<PoolTv>>,
                   EpisodeItems(k)) :
        <<seed, slots, bp, k>> \in
            (0..1) \X (1..2) \X BumperPoolSets \X (1..MaxBreakBlocks)}

Configs == MixConfigs \cup SeqConfigs \cup PackConfigs \cup BumperConfigs

\* The configs of the Phase-2 runs carry the fields the objective reads:
\* repeat_cost_s of an item, dominant_block_threshold_s and
\* dominant_block_penalty_s of a pool.
DiversityPool(pool, thresh, pen) ==
    pool @@ [dominant_block_threshold_s |-> thresh, dominant_block_penalty_s |-> pen]

CostItems(items, cost) == [i \in DOMAIN items |-> items[i] @@ [repeat_cost_s |-> cost]]

PoolQ == PoolConfig("q", FALSE)

\* Six episodes of a sequential pool that first-fit-decreasing packs into
\* three blocks of 7 and that fit two; the first episode may repeat once.
GapConfigs ==
    {ChannelConfig(SolverConfig(7, TRUE, 0, 1), OneBumper,
                   <<DiversityPool(PoolTv, 4, 0)>>,
                   CostItems(SeqItems(<<<<2, 1>>, <<2, 2>>, <<3, 3>>,
                                        <<2, 4>>, <<2, 5>>, <<3, 6>>>>, <<1, 1>>), cost)) :
        cost \in 0..1}

\* Two long items of pool p around two short items of pool q that may each
\* repeat once, in blocks of 4.
DiversityConfigs ==
    {ChannelConfig(SolverConfig(4, TRUE, 0, 1), OneBumper,
                   <<DiversityPool(PoolP, thresh, pen), DiversityPool(PoolQ, 4, 0)>>,
                   CostItems(<<Item(PoolP, Path("p", 1, <<>>), 4, FALSE, 0),
                               Item(PoolQ, Path("q", 1, <<>>), 1, TRUE, 1),
                               Item(PoolQ, Path("q", 2, <<>>), 1, TRUE, 1),
                               Item(PoolP, Path("p", 2, <<>>), 4, FALSE, 0)>>, cost)) :
        thresh \in {0, 4}, pen \in 0..1, cost \in 0..1}

Phase2Configs == GapConfigs \cup DiversityConfigs

\* The configs of the command-line runs: blocks of 2 minutes, items of 1 or
\* 2 minutes, with and without the long-form flag.
CliConfigs ==
    {ChannelConfig(SolverConfig(120, flag, 0, 1), OneBumper, <<PoolP>>,
                   MixItems(ds, <<0, 0>>)) :
        flag \in BOOLEAN, ds \in {<<60, 60>>, <<60, 120>>, <<60, 60, 60>>}}

\* --block-minutes, --allow-short-overflow-minutes and
\* --longform-consumes-block, each given or not (None)
CliArgs ==
    [block_minutes : {None, 3}, allow_short_overflow_minutes : {None, 1},
     longform_consumes_block : {None, 0, 1}]

----------------------------------------------------------------------------
(* solver.py: partition and the greedy upper bound. *)

cap_s(c) == c.solver.block_s
ceiling_s(c) == c.solver.block_s + c.solver.allow_short_overflow_s

\* long_items / short_items, as the sets of their indices in cfg.items (both
\* lists keep the listing order, so ascending item index is list order).
IsLong(c, it) == c.solver.longform_consumes_block /\ it.duration_s >= cap_s(c)
LongIdx(c) == {i \in DOMAIN c.items : IsLong(c, c.items[i])}
ShortIdx(c) == DOMAIN c.items \ LongIdx(c)

\* sorted(range(n), key=duration, reverse=True): a stable sort, so equal
\* durations keep the listing order.
RECURSIVE DecreasingOrder(_, _)
DecreasingOrder(c, S) ==
    IF S = {} THEN <<>>
    ELSE LET m == CHOOSE x \in S : \A y \in S :
                     \/ c.items[x].duration_s > c.items[y].duration_s
                     \/ (c.items[x].duration_s = c.items[y].duration_s /\ x <= y)
         IN <<m>> \o DecreasingOrder(c, S \ {m})

\* One step of the loop of _first_fit_decreasing_bins: item i goes to the
\* first bin with remaining >= d, or opens a bin.
FFDPlace(st, i, d, cap) ==
    LET fits == {b \in 1..Len(st.bins) : st.remaining[b] >= d} IN
    IF fits # {}
    THEN LET b == CHOOSE x \in fits : \A y \in fits : x <= y IN
         [bins |-> [st.bins EXCEPT ![b] = Append(@, i)],
          remaining |-> [st.remaining EXCEPT ![b] = @ - d]]
    ELSE [bins |-> Append(st.bins, <<i>>),
          remaining |-> Append(st.remaining, cap - d)]

RECURSIVE FFDLoop(_, _, _, _)
FFDLoop(c, order, st, cap) ==
    IF order = <<>> THEN st
    ELSE FFDLoop(c, Tail(order),
                 FFDPlace(st, Head(order), c.items[Head(order)].duration_s, cap),
                 cap)

first_fit_decreasing_bins(c, cap) ==
    FFDLoop(c, DecreasingOrder(c, ShortIdx(c)),
            [bins |-> <<>>, remaining |-> <<>>], cap).bins

ub_short(c) == Len(first_fit_decreasing_bins(c, ceiling_s(c)))
ub_total(c) == Cardinality(LongIdx(c)) + ub_short(c)

----------------------------------------------------------------------------
(* solver.py, Phase 1.  An assignment is [y, blk]: y[b] is the "block used" *)
(* variable of candidate block b, and blk[i] is the one block b with        *)
(* xs[i][b] = 1 (xl[l][b] = 1 for a long item) that the constraint "each    *)
(* base item appears exactly once" leaves to item i.                        *)

CandidateBlocks(B) == 0..(B - 1)

UsedCount(a) == Cardinality({b \in DOMAIN a.y : a.y[b] = 1})

ShortIn(c, a, b) == {i \in ShortIdx(c) : a.blk[i] = b}
LongIn(c, a, b) == {l \in LongIdx(c) : a.blk[l] = b}

Durations(c) == [i \in DOMAIN c.items |-> c.items[i].duration_s]

\* sum(xl[l][b]) <= 1
AtMostOneLong(c, a) == \A b \in DOMAIN a.y : Cardinality(LongIn(c, a, b)) <= 1

\* mutant of long_present: the constant-0 branch of "if I_long" taken always
long_present_zero(c, a, b) == FALSE

\* long_present[b] == sum(xl[l][b]), or 0 when there is no long item
long_present(c, a, b) == LongIn(c, a, b) # {}

\* sum(duration * xs[i][b]) <= ceiling_s
ShortCapacity(c, a) ==
    \A b \in DOMAIN a.y : SumOver(ShortIn(c, a, b), Durations(c)) <= ceiling_s(c)

\* long_present[b] => sum(xs[i][b]) = 0
NoShortInLong(c, a) ==
    \A b \in DOMAIN a.y : long_present(c, a, b) => ShortIn(c, a, b) = {}

\* mutant of UsageLink: the link xs[i][b] <= y[b] of the short items left out
UsageLinkLongOnly(c, a) == \A l \in LongIdx(c) : a.y[a.blk[l]] = 1

\* xs[i][b] <= y[b], xl[l][b] <= y[b], long_present[b] <= y[b]
UsageLink(c, a) == \A i \in DOMAIN c.items : a.y[a.blk[i]] = 1

\* y[b] >= y[b + 1]
PrefixSymmetry(y) == \A b \in DOMAIN y : (b + 1) \in DOMAIN y => y[b] >= y[b + 1]

\* sorted(eps, key=(season or 0, episode or 0, path)); the paths of one pool
\* are ordered by their number.
OrZero(x) == IF x = None THEN 0 ELSE x

EpisodeBefore(x, y) ==
    \/ PairLess(<<OrZero(x.season), OrZero(x.episode)>>,
                <<OrZero(y.season), OrZero(y.episode)>>)
    \/ /\ OrZero(x.season) = OrZero(y.season)
       /\ OrZero(x.episode) = OrZero(y.episode)
       /\ x.path.n <= y.path.n

RECURSIVE SortEpisodes(_, _)
SortEpisodes(c, S) ==
    IF S = {} THEN <<>>
    ELSE LET m == CHOOSE x \in S : \A y \in S : EpisodeBefore(c.items[x], c.items[y])
         IN <<m>> \o SortEpisodes(c, S \ {m})

eps_sorted(c, pool) ==
    SortEpisodes(c, {i \in DOMAIN c.items : c.items[i].pool = pool.name})

\* block_of[a] <= block_of[b_item] for each consecutive pair of eps_sorted
SequentialOrder(c, a) ==
    \A p \in DOMAIN c.pools :
        c.pools[p].sequential =>
            LET eps == eps_sorted(c, c.pools[p]) IN
            \A j \in 1..(Len(eps) - 1) : a.blk[eps[j]] <= a.blk[eps[j + 1]]

Phase1Constraints(c, a) ==
    /\ UsageLink(c, a)
    /\ AtMostOneLong(c, a)
    /\ NoShortInLong(c, a)
    /\ ShortCapacity(c, a)
    /\ SequentialOrder(c, a)

Phase1Solutions(c, B) ==
    UNION {{a \in {[y |-> y, blk |-> f] : f \in [DOMAIN c.items -> CandidateBlocks(B)]} :
                Phase1Constraints(c, a)} :
           y \in {z \in [CandidateBlocks(B) -> 0..1] : PrefixSymmetry(z)}}

\* model.Minimize(sum(y))
Phase1Objective(a) == UsedCount(a)

\* What Solve can return for Phase 1: OPTIMAL with the least objective,
\* FEASIBLE with the objective of any assignment found before the time
\* limit, INFEASIBLE when there is none, UNKNOWN when none was found in time.
Phase1Outcomes(c, B) ==
    LET values == {Phase1Objective(a) : a \in Phase1Solutions(c, B)} IN
    IF values = {}
    THEN {[status |-> "INFEASIBLE", value |-> 0], [status |-> "UNKNOWN", value |-> 0]}
    ELSE {[status |-> "OPTIMAL", value |-> CHOOSE v \in values : \A w \in values : v <= w]}
         \cup {[status |-> "FEASIBLE", value |-> v] : v \in values}
         \cup {[status |-> "UNKNOWN", value |-> 0]}

----------------------------------------------------------------------------
(* solver.py, Phase 2.  An assignment is [y, blk, r]: r[i] is the set of    *)
(* blocks b with r[i][b] = 1, for each short item i.                        *)

\* mutant of FixBlockCount: sum(y2) >= min_blocks
FixBlockCountAtLeast(y, mb) == Cardinality({b \in DOMAIN y : y[b] = 1}) >= mb

\* sum(y2) == min_blocks
FixBlockCount(y, mb) == Cardinality({b \in DOMAIN y : y[b] = 1}) = mb

\* mutant of RepeatChoices: sum(r2[i][b]) <= max_extra_uses + 1
RepeatChoicesOneMore(c, i, B) ==
    IF ~c.items[i].repeatable \/ c.items[i].max_extra_uses <= 0
    THEN {{}}
    ELSE {S \in SUBSET CandidateBlocks(B) : Cardinality(S) <= c.items[i].max_extra_uses + 1}

\* r2[i][b] == 0 for every b when the item is not repeatable or has no extra
\* uses; sum(r2[i][b]) <= max_extra_uses otherwise.
RepeatChoices(c, i, B) ==
    IF ~c.items[i].repeatable \/ c.items[i].max_extra_uses <= 0
    THEN {{}}
    ELSE {S \in SUBSET CandidateBlocks(B) : Cardinality(S) <= c.items[i].max_extra_uses}

RECURSIVE RepeatAssignments(_, _, _)
RepeatAssignments(c, B, S) ==
    IF S = {} THEN {[i \in {} |-> {}]}
    ELSE LET i == CHOOSE x \in S : TRUE IN
         {[j \in S |-> IF j = i THEN ch ELSE f[j]] :
             ch \in RepeatChoices(c, i, B), f \in RepeatAssignments(c, B, S \ {i})}

RepeatIn(c, a, b) == {i \in ShortIdx(c) : b \in a.r[i]}

\* r2[i][b] <= 1 - long_present2[b]
NoRepeatInLong(c, a) ==
    \A b \in DOMAIN a.y : long_present(c, a, b) => RepeatIn(c, a, b) = {}

\* used_short_time[b] == sum(duration * (xs2[i][b] + r2[i][b]))
used_short_time(c, a, b) ==
    SumOver(ShortIn(c, a, b), Durations(c)) + SumOver(RepeatIn(c, a, b), Durations(c))

\* mutant of Capacity: the sum counts the base items only, not the repeats
CapacityBaseOnly(c, a) ==
    \A b \in DOMAIN a.y :
        /\ SumOver(ShortIn(c, a, b), Durations(c)) \in 0..ceiling_s(c)
        /\ long_present(c, a, b) => SumOver(ShortIn(c, a, b), Durations(c)) = 0

\* used_short_time[b] is an IntVar of 0..ceiling_s; it is <= ceiling_s in a
\* block without a long item and 0 in a block with one.
Capacity(c, a) ==
    \A b \in DOMAIN a.y :
        /\ used_short_time(c, a, b) \in 0..ceiling_s(c)
        /\ ~long_present(c, a, b) => used_short_time(c, a, b) <= ceiling_s(c)
        /\ long_present(c, a, b) => used_short_time(c, a, b) = 0

\* mutant of Phase2BaseConstraints: the sequential ordering is not re-declared
Phase2BaseConstraintsUnordered(c, a) ==
    /\ UsageLink(c, a)
    /\ AtMostOneLong(c, a)
    /\ NoShortInLong(c, a)

Phase2BaseConstraints(c, a) ==
    /\ UsageLink(c, a)
    /\ AtMostOneLong(c, a)
    /\ NoShortInLong(c, a)
    /\ SequentialOrder(c, a)

Phase2RepeatConstraints(c, a) ==
    /\ NoRepeatInLong(c, a)
    /\ Capacity(c, a)

Phase2Solutions(c, B, mb) ==
    LET ys == {z \in [CandidateBlocks(B) -> 0..1] : PrefixSymmetry(z) /\ FixBlockCount(z, mb)}
        base == UNION {{a \in {[y |-> y, blk |-> f] :
                                 f \in [DOMAIN c.items -> CandidateBlocks(B)]} :
                            Phase2BaseConstraints(c, a)} : y \in ys}
    IN UNION {{a \in {[y |-> x.y, blk |-> x.blk, r |-> rr] :
                         rr \in RepeatAssignments(c, B, ShortIdx(c))} :
                   Phase2RepeatConstraints(c, a)} : x \in base}

----------------------------------------------------------------------------
(* solver.py, Phase 2 with its waste and diversity variables and its        *)
(* objective.  A solution is [y, blk, r, dominant, consec_dom]; dominant    *)
(* and consec_dom map <<b, p>> to 0 or 1, p the index of a pool.            *)

NoSolution == [y |-> <<>>, blk |-> <<>>, r |-> <<>>, dominant |-> <<>>, consec_dom |-> <<>>]

\* waste[b] is 0 in a block with a long item and ceiling_s - used_short_time
\* in every other candidate block
waste(c, a, b) ==
    IF long_present(c, a, b) THEN 0 ELSE ceiling_s(c) - used_short_time(c, a, b)

InPool(c, S, p) == {i \in S : c.items[i].pool = c.pools[p].name}

\* pool_time == short_sum + long_sum
pool_time(c, a, b, p) ==
    SumOver(InPool(c, ShortIn(c, a, b), p), Durations(c))
    + SumOver(InPool(c, RepeatIn(c, a, b), p), Durations(c))
    + SumOver(InPool(c, LongIn(c, a, b), p), Durations(c))

\* pool_time is an IntVar of 0..(ceiling_s + max_long)
PoolTimeDomain(c, a) ==
    \A b \in DOMAIN a.y : \A p \in DOMAIN c.pools :
        LET longs == InPool(c, LongIdx(c), p)
            max_long == IF longs = {} THEN 0
                        ELSE Durations(c)[CHOOSE l \in longs : \A m \in longs :
                                             Durations(c)[l] >= Durations(c)[m]]
        IN pool_time(c, a, b, p) \in 0..(ceiling_s(c) + max_long)

\* pool_time >= thresh if dominant; pool_time <= max(0, thresh - 1) if not
DominantLink(c, a, d) ==
    \A b \in DOMAIN a.y : \A p \in DOMAIN c.pools :
        LET thresh == c.pools[p].dominant_block_threshold_s IN
        /\ d[<<b, p>>] = 1 => pool_time(c, a, b, p) >= thresh
        /\ d[<<b, p>>] = 0 =>
              pool_time(c, a, b, p) <= (IF thresh - 1 > 0 THEN thresh - 1 ELSE 0)

\* d <= a, d <= c, d >= a + c - 1 for b in range(B - 1)
ConsecLink(c, B, d, cd) ==
    \A b \in 0..(B - 2) : \A p \in DOMAIN c.pools :
        /\ cd[<<b, p>>] <= d[<<b, p>>]
        /\ cd[<<b, p>>] <= d[<<b + 1, p>>]
        /\ cd[<<b, p>>] >= d[<<b, p>>] + d[<<b + 1, p>>] - 1

\* the waste variables are IntVars of 0..ceiling_s
WasteDomain(c, a) == \A b \in DOMAIN a.y : waste(c, a, b) \in 0..ceiling_s(c)

\* the values the diversity variables can take next to the assignment a
Diversity(c, B, a) ==
    UNION {{[dominant |-> d, consec_dom |-> cd] :
               cd \in {x \in [(0..(B - 2)) \X DOMAIN c.pools -> 0..1] : ConsecLink(c, B, d, x)}} :
           d \in {x \in [CandidateBlocks(B) \X DOMAIN c.pools -> 0..1] : DominantLink(c, a, x)}}

Phase2Model(c, B, mb) ==
    UNION {{[y |-> a.y, blk |-> a.blk, r |-> a.r,
             dominant |-> dv.dominant, consec_dom |-> dv.consec_dom] :
               dv \in Diversity(c, B, a)} :
           a \in {x \in Phase2Solutions(c, B, mb) : WasteDomain(c, x) /\ PoolTimeDomain(c, x)}}

\* the weights w = rng.randint(0, 3) of the tie-breaker, one for each short
\* item and candidate block: none, all on one block, or all everywhere
TieWeights(c, B) ==
    {[i \in ShortIdx(c) |-> [b \in CandidateBlocks(B) |-> 0]]}
    \cup {[i \in ShortIdx(c) |-> [b \in CandidateBlocks(B) |-> IF b = h THEN 3 ELSE 0]] :
             h \in CandidateBlocks(B)}
    \cup {[i \in ShortIdx(c) |-> [b \in CandidateBlocks(B) |-> 3]]}

\* sum(waste[b]) over every candidate block
WasteTerms(c, a) == SumOver(DOMAIN a.y, [b \in DOMAIN a.y |-> waste(c, a, b)])

\* repeat_cost_s * r2[i][b] for the repeatable items of positive cost
RepeatTerms(c, a) ==
    SumOver(ShortIdx(c),
            [i \in ShortIdx(c) |->
                IF c.items[i].repeatable /\ c.items[i].repeat_cost_s > 0
                THEN c.items[i].repeat_cost_s * Cardinality(a.r[i]) ELSE 0])

\* pen * consec_dom[b][p] for the pools of positive penalty
DiversityTerms(c, a) ==
    SumOver(DOMAIN a.consec_dom,
            [t \in DOMAIN a.consec_dom |->
                IF c.pools[t[2]].dominant_block_penalty_s > 0
                THEN c.pools[t[2]].dominant_block_penalty_s * a.consec_dom[t] ELSE 0])

\* w * xs2[i][b]
TieTerms(c, a, w) == SumOver(ShortIdx(c), [i \in ShortIdx(c) |-> w[i][a.blk[i]]])

\* model2.Minimize(sum(obj_terms))
Phase2Objective(c, a, w) ==
    WasteTerms(c, a) + RepeatTerms(c, a) + DiversityTerms(c, a) + TieTerms(c, a, w)

\* What Solve can return for Phase 2, as for Phase 1
Phase2Outcomes(c, B, mb, w) ==
    LET sols == Phase2Model(c, B, mb)
        values == {Phase2Objective(c, x, w) : x \in sols}
        least == CHOOSE v \in values : \A u \in values : v <= u
    IN
    IF sols = {}
    THEN {[status |-> "INFEASIBLE", sol |-> NoSolution], [status |-> "UNKNOWN", sol |-> NoSolution]}
    ELSE {[status |-> "OPTIMAL", sol |-> a] :
             a \in {x \in sols : Phase2Objective(c, x, w) = least}}
         \cup {[status |-> "FEASIBLE", sol |-> a] : a \in sols}
         \cup {[status |-> "UNKNOWN", sol |-> NoSolution]}

----------------------------------------------------------------------------
(* solver.py, extraction of the blocks from the Phase-2 assignment.  A      *)
(* block's items are indices into cfg.items.                                *)

used_blocks(a) == Ascending({b \in DOMAIN a.y : a.y[b] = 1})

\* mutant of SolvedBlock: the repeats are listed before the base items
SolvedBlockRepeatsFirst(c, a, out_idx, b) ==
    LET longs == LongIn(c, a, b)
        long_in_block == IF longs = {} THEN <<>>
                         ELSE <<CHOOSE l \in longs : \A m \in longs : l <= m>>
        base_items == Ascending(ShortIn(c, a, b))
        repeat_items == Ascending(RepeatIn(c, a, b))
        is_long == long_in_block # <<>>
        items_in_block == long_in_block \o repeat_items \o base_items
        content_duration_s ==
            IF is_long THEN c.items[long_in_block[1]].duration_s
            ELSE SumSeq([j \in 1..Len(items_in_block) |->
                            c.items[items_in_block[j]].duration_s])
    IN [index |-> out_idx,
        items |-> items_in_block,
        is_long |-> is_long,
        base_items_count |-> Len(base_items) + (IF is_long THEN 1 ELSE 0),
        repeat_items_count |-> Len(repeat_items),
        content_duration_s |-> content_duration_s,
        waste_s |-> IF is_long THEN 0 ELSE ceiling_s(c) - content_duration_s]

SolvedBlock(c, a, out_idx, b) ==
    LET longs == LongIn(c, a, b)
        long_in_block == IF longs = {} THEN <<>>
                         ELSE <<CHOOSE l \in longs : \A m \in longs : l <= m>>
        base_items == Ascending(ShortIn(c, a, b))
        repeat_items == Ascending(RepeatIn(c, a, b))
        is_long == long_in_block # <<>>
        items_in_block == long_in_block \o base_items \o repeat_items
        content_duration_s ==
            IF is_long THEN c.items[long_in_block[1]].duration_s
            ELSE SumSeq([j \in 1..Len(items_in_block) |->
                            c.items[items_in_block[j]].duration_s])
    IN [index |-> out_idx,
        items |-> items_in_block,
        is_long |-> is_long,
        base_items_count |-> Len(base_items) + (IF is_long THEN 1 ELSE 0),
        repeat_items_count |-> Len(repeat_items),
        content_duration_s |-> content_duration_s,
        waste_s |-> IF is_long THEN 0 ELSE ceiling_s(c) - content_duration_s]

SolveResult(c, a) ==
    LET used == used_blocks(a)
        bs == [j \in 1..Len(used) |-> SolvedBlock(c, a, j - 1, used[j])]
    IN [blocks |-> bs,
        repeats_used |-> SumSeq([j \in 1..Len(bs) |-> bs[j].repeat_items_count]),
        total_waste_s |-> SumSeq([j \in 1..Len(bs) |-> bs[j].waste_s]),
        seed |-> c.solver.seed]

----------------------------------------------------------------------------
(* bumpers.py.  The selector state is [rr_index, cyclers]; cyclers[p] is    *)
(* the cycler of the p-th pool in declaration order, [bag, last_path].      *)

NoPath == Path("", 0, <<>>)

\* bitwise exclusive or of two naturals
RECURSIVE Xor(_, _)
Xor(a, b) ==
    IF a = 0 THEN b
    ELSE IF b = 0 THEN a
    ELSE (((a % 2) + (b % 2)) % 2) + (2 * Xor(a \div 2, b \div 2))

\* pool_seed = self.seed ^ (hash(name) & 0xFFFFFFFF); h is the hash of the
\* pool name in the running process
pool_seed(seed, h) == Xor(seed, h)

\* BumperSelector(cfg.bumpers, seed): one cycler per pool, seeded by pool_seed
NewSelector(c, seed, hashes) ==
    [seed |-> seed,
     rr_index |-> 0,
     cyclers |-> [p \in DOMAIN c.bumpers.pools |->
                    [seed |-> pool_seed(seed, hashes[c.bumpers.pools[p].name]),
                     bag |-> <<>>, last_path |-> NoPath]]]

\* mutant of RotateGuard: the rotation drops the head, bag[1:]
RotateGuardDrop(cy, bag) ==
    IF cy.last_path # NoPath /\ Len(bag) > 1 /\ bag[1].path = cy.last_path
    THEN Tail(bag)
    ELSE bag

\* _refill after the shuffle produced the order bag
RotateGuard(cy, bag) ==
    IF cy.last_path # NoPath /\ Len(bag) > 1 /\ bag[1].path = cy.last_path
    THEN Tail(bag) \o <<Head(bag)>>
    ELSE bag

\* _ExhaustShuffleCycler._refill: every order random.shuffle can produce
Refills(pool, cy) == {RotateGuard(cy, bag) : bag \in Orderings(pool.items)}

\* mutant of CyclerNext: _last_path is forgotten when the bag is refilled
CyclerNextForgets(pool, cy) ==
    LET bags == IF cy.bag = <<>>
                THEN Refills(pool, [cy EXCEPT !.last_path = NoPath])
                ELSE {cy.bag} IN
    {[cycler |-> [cy EXCEPT !.bag = Tail(bag), !.last_path = Head(bag).path],
      item |-> Head(bag)] : bag \in bags}

\* _ExhaustShuffleCycler.next: the possible [cycler, item] results
CyclerNext(pool, cy) ==
    LET bags == IF cy.bag = <<>> THEN Refills(pool, cy) ELSE {cy.bag} IN
    {[cycler |-> [cy EXCEPT !.bag = Tail(bag), !.last_path = Head(bag).path],
      item |-> Head(bag)] : bag \in bags}

\* mutant of RoundRobinChoice: _rr_index is not advanced
RoundRobinStuck(c, s) ==
    [sel |-> s, pool |-> (s.rr_index % Len(c.bumpers.pools)) + 1]

RoundRobinChoice(c, s) ==
    [sel |-> [s EXCEPT !.rr_index = @ + 1],
     pool |-> (s.rr_index % Len(c.bumpers.pools)) + 1]

ClampWeight(w) == IF w > 0 THEN w ELSE 0

\* mutant of choose_pool_name: no fallback, weighted draws among all pools
choose_pool_name_no_fallback(c, s) ==
    IF c.bumpers.mixing_strategy = "round_robin"
    THEN {RoundRobinChoice(c, s)}
    ELSE {[sel |-> s, pool |-> p] : p \in DOMAIN c.bumpers.pools}

\* BumperSelector._choose_pool_name: the possible [selector, pool] results
choose_pool_name(c, s) ==
    LET pools == c.bumpers.pools IN
    IF c.bumpers.mixing_strategy = "round_robin"
    THEN {RoundRobinChoice(c, s)}
    ELSE IF SumSeq([p \in DOMAIN pools |-> ClampWeight(pools[p].weight)]) <= 0
         THEN {RoundRobinChoice(c, s)}
         ELSE {[sel |-> s, pool |-> p] :
                  p \in {q \in DOMAIN pools : ClampWeight(pools[q].weight) > 0}}

\* one pass of the loop of next_bumpers: the possible [selector, item] results
SlotOutcomes(c, s) ==
    UNION {{[sel |-> [ch.sel EXCEPT !.cyclers[ch.pool] = nx.cycler], item |-> nx.item] :
               nx \in CyclerNext(c.bumpers.pools[ch.pool], ch.sel.cyclers[ch.pool])} :
           ch \in choose_pool_name(c, s)}

\* BumperSelector.next_bumpers: the possible [selector, out] results of the
\* remaining n slots of a break
RECURSIVE BreakOutcomes(_, _, _)
BreakOutcomes(c, s, n) ==
    IF n = 0 THEN {[sel |-> s, out |-> <<>>]}
    ELSE UNION {{[sel |-> rest.sel, out |-> <<o.item>> \o rest.out] :
                    rest \in BreakOutcomes(c, o.sel, n - 1)} :
                o \in SlotOutcomes(c, s)}

next_bumpers(c, s) == BreakOutcomes(c, s, c.bumpers.slots_per_break)

----------------------------------------------------------------------------
(* verify.py: verify_yaml_against_config on the playlist paths `items`.     *)
(* A finding is represented by the kind of its message; all are ERRORs.     *)

\* the (pool, item) positions of the bumper items, in declaration order
BumperSlots(c) ==
    UNION {{<<p, j>> : j \in DOMAIN c.bumpers.pools[p].items} : p \in DOMAIN c.bumpers.pools}

bumper_set(c) == {c.bumpers.pools[t[1]].items[t[2]].path : t \in BumperSlots(c)}

bumper_paths_len(c) ==
    SumSeq([p \in DOMAIN c.bumpers.pools |-> Len(c.bumpers.pools[p].items)])

is_content(c, path) == \E i \in DOMAIN c.items : c.items[i].path = path

\* content_by_path[path]: a dict comprehension keeps the last item of a path
content_by_path(c, path) ==
    c.items[CHOOSE i \in DOMAIN c.items :
                /\ c.items[i].path = path
                /\ \A j \in DOMAIN c.items : c.items[j].path = path => j <= i]

\* duration_by_path_s.get(path, 0): bumper durations overwrite content ones
duration_by_path_s(c, path) ==
    IF path \in bumper_set(c)
    THEN LET hits == {t \in BumperSlots(c) : c.bumpers.pools[t[1]].items[t[2]].path = path}
             last == CHOOSE t \in hits : \A u \in hits : PairLess(u, t) \/ u = t
         IN c.bumpers.pools[last[1]].items[last[2]].duration_s
    ELSE IF is_content(c, path) THEN content_by_path(c, path).duration_s
    ELSE 0

\* the maximal runs (is_bumper, length, start index) in playlist order
RECURSIVE RunsFrom(_, _, _, _)
RunsFrom(c, items, idx, cur) ==
    IF idx > Len(items) THEN <<cur>>
    ELSE IF (items[idx] \in bumper_set(c)) = cur.is_b
         THEN RunsFrom(c, items, idx + 1, [cur EXCEPT !.len = @ + 1])
         ELSE <<cur>> \o RunsFrom(c, items, idx + 1,
                                [is_b |-> items[idx] \in bumper_set(c), len |-> 1, start |-> idx])

Runs(c, items) ==
    RunsFrom(c, items, 1, [is_b |-> items[1] \in bumper_set(c), len |-> 0, start |-> 1])

Count(items, path) == Cardinality({k \in 1..Len(items) : items[k] = path})

\* the items of the playlist that satisfy keep, in playlist order
RECURSIVE Filter(_, _)
Filter(items, keep) ==
    IF items = <<>> THEN <<>>
    ELSE (IF Head(items) \in keep THEN <<Head(items)>> ELSE <<>>) \o Filter(Tail(items), keep)

\* 1) the first `slots` entries are bumpers
LeadingFindings(c, items) ==
    IF \E i \in 1..c.bumpers.slots_per_break : items[i] \notin bumper_set(c)
    THEN {"leading_not_bumper"} ELSE {}

\* 2) run structure
RunFindings(c, items) ==
    LET runs == Runs(c, items) IN
    (IF ~runs[1].is_b THEN {"not_start_with_bumpers"} ELSE {})
    \cup (IF runs[Len(runs)].is_b THEN {"ends_with_bumpers"} ELSE {})
    \cup (IF \E k \in 1..Len(runs) :
                runs[k].is_b /\ runs[k].len # c.bumpers.slots_per_break
          THEN {"bumper_run_length"} ELSE {})

\* 3) known paths
UnknownPaths(c, items) ==
    {k \in 1..Len(items) : items[k] \notin bumper_set(c) /\ ~is_content(c, items[k])}

UnknownFindings(c, items) ==
    IF UnknownPaths(c, items) # {} THEN {"unknown_paths"} ELSE {}

\* 4) repeats policy; counts holds the paths that are not bumpers
CountedPaths(c, items) == Range(items) \ bumper_set(c)

RepeatFindings(c, items) ==
    (IF \E i \in DOMAIN c.items :
            c.items[i].path \in bumper_set(c) \/ Count(items, c.items[i].path) = 0
     THEN {"missing_base_items"} ELSE {})
    \cup (IF \E p \in CountedPaths(c, items) :
                ~content_by_path(c, p).repeatable /\ Count(items, p) # 1
          THEN {"non_repeatable_repeated"} ELSE {})
    \cup (IF \E p \in CountedPaths(c, items) :
                /\ content_by_path(c, p).repeatable
                /\ Count(items, p) > 1 + content_by_path(c, p).max_extra_uses
          THEN {"exceeds_max_extra_uses"} ELSE {})

\* 5) bumper exhaust-before-repeat: in the uses of one pool, a path seen
\* again after fewer than len(pool_set) uses
PoolRepeatsEarly(pool, items) ==
    LET pool_set == {pool.items[j].path : j \in DOMAIN pool.items}
        uses == Filter(items, pool_set)
    IN /\ Len(pool.items) > 1
       /\ \E k, m \in 1..Len(uses) :
             /\ k < m
             /\ uses[k] = uses[m]
             /\ \A x \in (k + 1)..(m - 1) : uses[x] # uses[k]
             /\ m - k < Cardinality(pool_set)

ExhaustFindings(c, items) ==
    IF \E p \in DOMAIN c.bumpers.pools : PoolRepeatsEarly(c.bumpers.pools[p], items)
    THEN {"bumper_repeats_before_exhaustion"} ELSE {}

\* 6) block durations, over the content runs
VerifyBlocks(c, items) ==
    LET runs == Runs(c, items)
        content == Filter(runs, {runs[k] : k \in {j \in 1..Len(runs) : ~runs[j].is_b}})
    IN [k \in 1..Len(content) |->
           [j \in 1..content[k].len |-> items[content[k].start + j - 1]]]

BlockHasLong(c, block) ==
    /\ c.solver.longform_consumes_block
    /\ \E j \in 1..Len(block) : duration_by_path_s(c, block[j]) >= cap_s(c)

BlockDuration(c, block) ==
    SumSeq([j \in 1..Len(block) |-> duration_by_path_s(c, block[j])])

BlockFindings(c, items) ==
    LET bl == VerifyBlocks(c, items) IN
    IF bl = <<>> THEN {"no_content_blocks"}
    ELSE (IF \E k \in 1..Len(bl) : BlockHasLong(c, bl[k]) /\ Len(bl[k]) # 1
          THEN {"long_block_not_solo"} ELSE {})
         \cup (IF \E k \in 1..Len(bl) :
                     ~BlockHasLong(c, bl[k]) /\ BlockDuration(c, bl[k]) > ceiling_s(c)
               THEN {"block_exceeds_capacity"} ELSE {})

\* 7) sequential pools: the occurrences of the pool's items in playlist order
PoolOccurrences(c, pool, items) ==
    Filter(items, {p \in CountedPaths(c, items) :
                      is_content(c, p) /\ content_by_path(c, p).pool = pool.name})

SequentialFindings(c, items) ==
    (IF \E p \in DOMAIN c.pools :
            /\ c.pools[p].sequential
            /\ \E x \in Range(PoolOccurrences(c, c.pools[p], items)) :
                    parse_sxxexx(x) = NoEpisodeId
     THEN {"sequential_missing_sxxexx"} ELSE {})
    \cup (IF \E p \in DOMAIN c.pools :
                /\ c.pools[p].sequential
                /\ LET occ == PoolOccurrences(c, c.pools[p], items)
                       eps == Filter(occ, {x \in Range(occ) : parse_sxxexx(x) # NoEpisodeId})
                   IN \E k \in 1..(Len(eps) - 1) :
                         PairLess(<<parse_sxxexx(eps[k + 1]).season, parse_sxxexx(eps[k + 1]).episode>>,
                                  <<parse_sxxexx(eps[k]).season, parse_sxxexx(eps[k]).episode>>)
          THEN {"sequential_out_of_order"} ELSE {})

\* line 166, content_by_path[p], raises KeyError on a counted path that is
\* no content path
VerifyRaises(c, items) ==
    /\ Len(items) >= c.bumpers.slots_per_break + 1
    /\ \E p \in CountedPaths(c, items) : ~is_content(c, p)

verify_yaml_against_config(c, items) ==
    LET dup == IF Cardinality(bumper_set(c)) # bumper_paths_len(c)
               THEN {"duplicate_bumper_paths"} ELSE {}
    IN IF items = <<>> THEN {"playlist_empty"}
       ELSE IF Len(items) < c.bumpers.slots_per_break + 1 THEN dup \cup {"too_short"}
       ELSE dup \cup LeadingFindings(c, items) \cup RunFindings(c, items)
                \cup UnknownFindings(c, items) \cup RepeatFindings(c, items)
                \cup ExhaustFindings(c, items) \cup BlockFindings(c, items)
                \cup SequentialFindings(c, items)

----------------------------------------------------------------------------
(* config.py: load_config on a document `doc`.  A document holds the solver *)
(* settings, the bumpers object and the content pools; the pools of a JSON  *)
(* object are listed in declaration order.                                  *)

RawItem(path) ==
    [path |-> path, duration_s |-> 1, repeatable |-> FALSE, max_extra_uses |-> 0]

RawPool(name, sequential, paths) ==
    [name |-> name, sequential |-> sequential,
     items |-> [i \in DOMAIN paths |-> RawItem(paths[i])]]

RawBumperPool(name, paths) ==
    [name |-> name, weight |-> 1,
     items |-> [i \in DOMAIN paths |-> [path |-> paths[i], duration_s |-> 1]]]

RawDocument(solver, slots_per_break, bumper_pools, pools) ==
    [solver |-> solver,
     bumpers |-> [slots_per_break |-> slots_per_break,
                  mixing_strategy |-> "round_robin", pools |-> bumper_pools],
     pools |-> pools]

NoDocument == RawDocument(SolverConfig(0, TRUE, 0, 0), 0, <<>>, <<>>)

\* the items list load_config builds: the pools' items in declaration order
RECURSIVE LoadedItems(_, _)
LoadedItems(pools, k) ==
    IF k > Len(pools) THEN <<>>
    ELSE [i \in DOMAIN pools[k].items |->
             Item(PoolConfig(pools[k].name, pools[k].sequential), pools[k].items[i].path,
                  pools[k].items[i].duration_s, pools[k].items[i].repeatable,
                  pools[k].items[i].max_extra_uses)]
         \o LoadedItems(pools, k + 1)

\* a sequential pool holds an item whose path has no SxxExx token
LacksEpisodeId(doc) ==
    \E k \in DOMAIN doc.pools :
        /\ doc.pools[k].sequential
        /\ \E i \in DOMAIN doc.pools[k].items :
              parse_sxxexx(doc.pools[k].items[i].path) = NoEpisodeId

\* the sanity check at the end of load_config: a path seen twice in `items`
DuplicateItemPaths(items) ==
    \E i, j \in DOMAIN items : i < j /\ items[i].path = items[j].path

\* the conditions under which load_config raises ConfigError
LoadRejects(doc) ==
    \/ doc.bumpers.slots_per_break <= 0
    \/ doc.bumpers.mixing_strategy \notin {"round_robin", "weighted"}
    \/ doc.bumpers.pools = <<>>
    \/ \E p \in DOMAIN doc.bumpers.pools : doc.bumpers.pools[p].items = <<>>
    \/ doc.pools = <<>>
    \/ \E k \in DOMAIN doc.pools : doc.pools[k].items = <<>>
    \/ LacksEpisodeId(doc)
    \/ DuplicateItemPaths(LoadedItems(doc.pools, 1))

\* the ChannelConfig load_config returns
load_config(doc) ==
    ChannelConfig(doc.solver,
                  BumpersConfig(doc.bumpers.slots_per_break, doc.bumpers.mixing_strategy,
                                doc.bumpers.pools),
                  [k \in DOMAIN doc.pools |->
                      PoolConfig(doc.pools[k].name, doc.pools[k].sequential)],
                  LoadedItems(doc.pools, 1))

\* The documents: one content pool and one or two bumper pools whose items
\* draw their paths from two names, one of them with an SxxExx token.
RawPaths == {Path("m", 1, <<>>), Path("m", 2, <<1, 1>>)}

RawPathLists == UNION {[1..n -> RawPaths] : n \in 0..MaxRawItems}

RawBumperPools ==
    {<<RawBumperPool("ids", ps)>> : ps \in RawPathLists}
    \cup {<<RawBumperPool("ids", ps), RawBumperPool("promos", <<q>>)>> :
             ps \in RawPathLists, q \in RawPaths}

RawDocuments ==
    {RawDocument(SolverConfig(MaxDur, TRUE, 0, 1), slots, bp,
                 <<RawPool("p", sequential, ps)>>) :
        slots \in 0..1, bp \in RawBumperPools, sequential \in BOOLEAN,
        ps \in RawPathLists}

----------------------------------------------------------------------------
(* yaml_out.py and flat.py. *)

\* PlaylistEntry(path=..., media_type=...): include_in_guide takes its default
PlaylistEntry(path, media_type) ==
    [path |-> path, media_type |-> media_type, include_in_guide |-> TRUE]

\* build_yaml_config: the playlist items of the entries
PlaylistItems(es) ==
    [k \in DOMAIN es |->
        [path |-> es[k].path, type |-> es[k].media_type,
         include_in_guide |-> es[k].include_in_guide]]

TYPE_TO_MEDIA_TYPE(item_type) ==
    CASE item_type = "feature" -> "movie"
      [] item_type \in {"bumper", "interstitial"} -> "other_video"
      [] OTHER -> item_type

FlatShortLoopConfig(under_s, loop_to_s) == [under_s |-> under_s, loop_to_s |-> loop_to_s]

FlatItem(item_type, path, loop_to_s, auto_loop) ==
    [item_type |-> item_type, path |-> path, loop_to_s |-> loop_to_s,
     auto_loop |-> auto_loop]

FlatConfig(short_loop, items) == [short_loop |-> short_loop, items |-> items]

\* math.ceil(a / b) for a >= 0, b > 0
CeilDiv(a, b) == (a + b - 1) \div b

\* _repeat_count with the quotient rounded down
repeat_count_floor(duration_s, target_s) ==
    IF target_s <= 0 THEN 1
    ELSE IF target_s \div duration_s > 1 THEN target_s \div duration_s ELSE 1

\* _repeat_count (durations are positive)
repeat_count(duration_s, target_s) ==
    IF target_s <= 0 THEN 1
    ELSE IF CeilDiv(target_s, duration_s) > 1 THEN CeilDiv(target_s, duration_s) ELSE 1

\* the target of one item in expand_flat_to_playlist_entries, or None
FlatTarget(fc, pr, it) ==
    IF it.loop_to_s = None /\ it.auto_loop /\ fc.short_loop.loop_to_s > 0
    THEN IF pr[it.path] < fc.short_loop.under_s THEN fc.short_loop.loop_to_s ELSE None
    ELSE it.loop_to_s

\* the number of copies of one item
FlatCopies(fc, pr, it) ==
    IF FlatTarget(fc, pr, it) = None THEN 1
    ELSE repeat_count(pr[it.path], FlatTarget(fc, pr, it))

RECURSIVE FlatExpandFrom(_, _, _)
FlatExpandFrom(fc, pr, k) ==
    IF k > Len(fc.items) THEN <<>>
    ELSE [j \in 1..FlatCopies(fc, pr, fc.items[k]) |->
             PlaylistEntry(fc.items[k].path, TYPE_TO_MEDIA_TYPE(fc.items[k].item_type))]
         \o FlatExpandFrom(fc, pr, k + 1)

expand_flat_to_playlist_entries(fc, pr) == FlatExpandFrom(fc, pr, 1)

\* The flat configs: up to MaxFlatItems items with distinct paths, with and
\* without an explicit loop_to and the auto_loop opt-out.
FlatPath(i) == Path("f", i, <<>>)

FlatItemLists ==
    UNION {{[i \in 1..n |-> FlatItem(IF i = 1 THEN "feature" ELSE "bumper", FlatPath(i),
                                     f[i][1], f[i][2])] :
               f \in [1..n -> {None, 0, MaxLoopTo} \X BOOLEAN]} :
           n \in 1..MaxFlatItems}

FlatConfigs ==
    {FlatConfig(FlatShortLoopConfig(under_s, loop_to_s), items) :
        under_s \in {0, 2}, loop_to_s \in {0, MaxLoopTo}, items \in FlatItemLists}

NoFlatConfig == FlatConfig(FlatShortLoopConfig(0, 0), <<>>)

Probes(fc) == [{fc.items[i].path : i \in DOMAIN fc.items} -> 1..MaxProbe]

----------------------------------------------------------------------------
(* The run: generate.solve_to_yaml_obj, then the verifier on its playlist.  *)

NoSelector == [seed |-> 0, rr_index |-> 0, cyclers |-> <<>>]

\* no seed handed on yet
NoSeeds == [phase1 |-> None, tie_breaker |-> None, phase2 |-> None, result |-> None]

BumperPoolNames == {"ids", "promos", "cards"}
HashTables == [BumperPoolNames -> 0..MaxHash]
ZeroHash == [n \in BumperPoolNames |-> 0]

NoRun == [ran |-> FALSE, pool_seeds |-> <<>>, blocks |-> <<>>, entries |-> <<>>]

\* the state before anything has run
Idle ==
    /\ err = ""
    /\ status1 = ""
    /\ min_blocks = 0
    /\ blocks = <<>>
    /\ repeats_used = 0
    /\ total_waste_s = 0
    /\ sel = NoSelector
    /\ entries = <<>>
    /\ next_block = 0
    /\ findings = {}
    /\ seeds = NoSeeds
    /\ prev = NoRun

NoFlatRun ==
    /\ flat_cfg = NoFlatConfig
    /\ probe = <<>>
    /\ flat_entries = <<>>

NoConfig == ChannelConfig(SolverConfig(0, TRUE, 0, 0), BumpersConfig(0, "round_robin", <<>>),
                          <<>>, <<>>)

\* no override given: block_minutes, allow_short_overflow_minutes and
\* longform_consumes_block are None
NoArgs == [block_minutes |-> None, allow_short_overflow_minutes |-> None,
           longform_consumes_block |-> None]

NoCliRun ==
    /\ cli_cfg = NoConfig
    /\ args = NoArgs

NoPhase2Run ==
    /\ tie = <<>>
    /\ status2 = ""
    /\ sol = NoSolution

\* A solve run in one process.  What a single run can do does not depend on
\* the values of hash(name), only which pool seeds it records.
Init ==
    /\ cfg \in Configs
    /\ pc = "start"
    /\ Idle
    /\ str_hash = ZeroHash
    /\ raw = NoDocument
    /\ NoFlatRun
    /\ NoCliRun
    /\ NoPhase2Run

Fail(kind) ==
    /\ pc' = "error"
    /\ err' = kind

\* mutant of IsAutoSeed: the check of seed 0 is absent
IsAutoSeedNever(c) == FALSE

\* cfg2.solver.seed == 0
IsAutoSeed(c) == c.solver.seed = 0

\* mutant of StatusOK: the status of the solve is not checked
StatusOKAlways(status) == TRUE

\* status in (cp_model.OPTIMAL, cp_model.FEASIBLE)
StatusOK(status) == status \in {"OPTIMAL", "FEASIBLE"}

\* solve_to_yaml_obj: seed 0 (auto) was not replaced
RejectAutoSeed ==
    /\ pc = "start"
    /\ IsAutoSeed(cfg)
    /\ Fail("GenerateError")
    /\ UNCHANGED <<cfg, status1, min_blocks, blocks, repeats_used, total_waste_s,
                   sel, entries, next_block, findings, seeds>>
    /\ UNCHANGED <<process_vars, raw, flat_vars, cli_vars, phase2_vars>>

\* solve_minimal_cycle up to the end of Phase 1
SolvePhase1 ==
    /\ pc = "start"
    /\ ~IsAutoSeed(cfg)
    /\ LET B == ub_total(cfg) IN
       IF B = 0
       THEN Fail("NoContent") /\ UNCHANGED <<status1, min_blocks, seeds>>
       ELSE \E o \in Phase1Outcomes(cfg, B) :
               /\ status1' = o.status
               /\ min_blocks' = o.value
               /\ seeds' = [seeds EXCEPT !.phase1 = cfg.solver.seed]
               /\ IF StatusOK(o.status)
                  THEN pc' = "phase2" /\ err' = err
                  ELSE Fail("Phase1")
    /\ UNCHANGED <<cfg, blocks, repeats_used, total_waste_s, sel, entries,
                   next_block, findings>>
    /\ UNCHANGED <<process_vars, raw, flat_vars, cli_vars, phase2_vars>>

\* solve_minimal_cycle, Phase 2 and the extraction; solve_to_yaml_obj then
\* constructs the BumperSelector with the seed of the result
SolvePhase2 ==
    /\ pc = "phase2"
    /\ \E a \in Phase2Solutions(cfg, ub_total(cfg), min_blocks) :
          LET result == SolveResult(cfg, a) IN
          /\ blocks' = result.blocks
          /\ repeats_used' = result.repeats_used
          /\ total_waste_s' = result.total_waste_s
          /\ seeds' = [seeds EXCEPT !.tie_breaker = cfg.solver.seed,
                                    !.phase2 = cfg.solver.seed,
                                    !.result = result.seed]
          /\ sel' = NewSelector(cfg, result.seed, str_hash)
    /\ pc' = "assemble"
    /\ UNCHANGED <<cfg, err, status1, min_blocks, entries, next_block, findings>>
    /\ UNCHANGED <<process_vars, raw, flat_vars, cli_vars, phase2_vars>>

\* Phase 2 ended neither OPTIMAL nor FEASIBLE
FailPhase2 ==
    /\ pc = "phase2"
    /\ Fail("Phase2")
    /\ seeds' = [seeds EXCEPT !.tie_breaker = cfg.solver.seed,
                              !.phase2 = cfg.solver.seed]
    /\ UNCHANGED <<cfg, status1, min_blocks, blocks, repeats_used, total_waste_s,
                   sel, entries, next_block, findings>>
    /\ UNCHANGED <<process_vars, raw, flat_vars, cli_vars, phase2_vars>>

BlockPaths(c, block) == [j \in 1..Len(block.items) |-> c.items[block.items[j]].path]

\* one pass of the loop of solve_to_yaml_obj: a break, then the block's items
AssembleBlock ==
    /\ pc = "assemble"
    /\ next_block < Len(blocks)
    /\ \E o \in next_bumpers(cfg, sel) :
          /\ sel' = o.sel
          /\ entries' = entries \o [j \in 1..Len(o.out) |-> o.out[j].path]
                                \o BlockPaths(cfg, blocks[next_block + 1])
    /\ next_block' = next_block + 1
    /\ pc' = IF next_block + 1 = Len(blocks) THEN "built" ELSE "assemble"
    /\ UNCHANGED <<cfg, err, status1, min_blocks, blocks, repeats_used,
                   total_waste_s, findings, seeds>>
    /\ UNCHANGED <<process_vars, raw, flat_vars, cli_vars, phase2_vars>>

\* verify_yaml_against_config on the playlist, with the same config
Verify ==
    /\ pc = "built"
    /\ IF VerifyRaises(cfg, entries)
       THEN Fail("KeyError") /\ findings' = findings
       ELSE /\ findings' = verify_yaml_against_config(cfg, entries)
            /\ pc' = "verified"
            /\ err' = err
    /\ UNCHANGED <<cfg, status1, min_blocks, blocks, repeats_used, total_waste_s,
                   sel, entries, next_block, seeds>>
    /\ UNCHANGED <<process_vars, raw, flat_vars, cli_vars, phase2_vars>>

Next ==
    \/ RejectAutoSeed
    \/ SolvePhase1
    \/ SolvePhase2
    \/ FailPhase2
    \/ AssembleBlock
    \/ Verify

Spec == Init /\ [][Next]_vars

----------------------------------------------------------------------------
(* The breaks of a solved cycle: the loop of solve_to_yaml_obj from the     *)
(* state solve_minimal_cycle and BumperSelector(...) leave, on configs with *)
(* up to three bumper pools under both mixing strategies.                   *)

PoolNameOrder == <<"ids", "promos", "cards">>

\* P pools in declaration order: the first of m items, the others of 2
SelectorPools(m, weights) ==
    [p \in DOMAIN weights |->
        BumperPoolConfig(PoolNameOrder[p], weights[p], IF p = 1 THEN m ELSE 2)]

\* the weights of P pools: all zero or negative, all positive, or all but the
\* first positive
PoolWeights(P) ==
    [1..P -> {-1, 0}]
    \cup {[p \in 1..P |-> 1], [p \in 1..P |-> IF p = 1 THEN 0 ELSE 1]}

SelectorBumpers ==
    {BumpersConfig(slots, "round_robin", SelectorPools(m, [p \in 1..P |-> 1])) :
        slots \in 1..2, m \in 1..MaxBumperPool, P \in DOMAIN PoolNameOrder}
    \cup UNION {{BumpersConfig(slots, "weighted", SelectorPools(2, w)) :
                    slots \in 1..2, w \in PoolWeights(P)} :
                P \in DOMAIN PoolNameOrder}

SelectorConfigs ==
    {ChannelConfig(SolverConfig(MaxDur, TRUE, 0, 1), b, <<PoolTv>>, EpisodeItems(k)) :
        b \in SelectorBumpers, k \in 1..MaxBreakBlocks}

InitBreaks ==
    /\ cfg \in SelectorConfigs
    /\ pc = "assemble"
    /\ err = ""
    /\ status1 = "OPTIMAL"
    /\ min_blocks = ub_total(cfg)
    /\ \E a \in Phase2Solutions(cfg, ub_total(cfg), ub_total(cfg)) :
          /\ blocks = SolveResult(cfg, a).blocks
          /\ repeats_used = SolveResult(cfg, a).repeats_used
          /\ total_waste_s = SolveResult(cfg, a).total_waste_s
    /\ seeds = [phase1 |-> cfg.solver.seed, tie_breaker |-> cfg.solver.seed,
                phase2 |-> cfg.solver.seed, result |-> cfg.solver.seed]
    /\ sel = NewSelector(cfg, cfg.solver.seed, ZeroHash)
    /\ entries = <<>>
    /\ next_block = 0
    /\ findings = {}
    /\ str_hash = ZeroHash
    /\ prev = NoRun
    /\ raw = NoDocument
    /\ NoFlatRun
    /\ NoCliRun
    /\ NoPhase2Run

NextBreaks == AssembleBlock

SpecBreaks == InitBreaks /\ [][NextBreaks]_vars

----------------------------------------------------------------------------
(* Two runs on one config and seed, each in a process of its own: the       *)
(* second starts when the first has built its playlist.                     *)

\* the bumper paths of pool p among the entries es, in order
DrawsOf(c, p, es) ==
    Filter(es, {c.bumpers.pools[p].items[j].path : j \in DOMAIN c.bumpers.pools[p].items})

TwinConfigs == {c \in BumperConfigs : ~IsAutoSeed(c) /\ Len(c.items) <= 2}

InitTwin ==
    /\ cfg \in TwinConfigs
    /\ pc = "start"
    /\ Idle
    /\ str_hash \in HashTables
    /\ raw = NoDocument
    /\ NoFlatRun
    /\ NoCliRun
    /\ NoPhase2Run

\* random.Random(pool_seed) is a function of its seed: a cycler seeded as in
\* the earlier run draws what that run's cycler drew
Replays ==
    prev.ran =>
        \A p \in DOMAIN sel.cyclers :
            sel.cyclers[p].seed = prev.pool_seeds[p] =>
                LET d == DrawsOf(cfg, p, entries)
                    e == DrawsOf(cfg, p, prev.entries)
                IN \A k \in 1..Len(d) : k <= Len(e) => d[k] = e[k]

AssembleBlockSeeded == AssembleBlock /\ Replays'

\* the process ends with its playlist built; the same config and seed are
\* run again in a new process, where hash(name) has new values
RunAgain ==
    /\ pc = "built"
    /\ ~prev.ran
    /\ prev' = [ran |-> TRUE,
                 pool_seeds |-> [p \in DOMAIN sel.cyclers |-> sel.cyclers[p].seed],
                 blocks |-> blocks, entries |-> entries]
    /\ str_hash' \in HashTables
    /\ pc' = "start"
    /\ err' = ""
    /\ status1' = ""
    /\ min_blocks' = 0
    /\ blocks' = <<>>
    /\ repeats_used' = 0
    /\ total_waste_s' = 0
    /\ sel' = NoSelector
    /\ entries' = <<>>
    /\ next_block' = 0
    /\ findings' = {}
    /\ seeds' = NoSeeds
    /\ UNCHANGED <<cfg, raw, flat_vars, cli_vars, phase2_vars>>

NextTwin ==
    \/ SolvePhase1
    \/ SolvePhase2
    \/ FailPhase2
    \/ AssembleBlockSeeded
    \/ RunAgain

SpecTwin == InitTwin /\ [][NextTwin]_vars

----------------------------------------------------------------------------
(* load_config on a document. *)

InitLoad ==
    /\ raw \in RawDocuments
    /\ cfg = NoConfig
    /\ pc = "load"
    /\ Idle
    /\ str_hash = ZeroHash
    /\ NoFlatRun
    /\ NoCliRun
    /\ NoPhase2Run

LoadConfig ==
    /\ pc = "load"
    /\ IF LoadRejects(raw)
       THEN Fail("ConfigError") /\ cfg' = cfg
       ELSE /\ cfg' = load_config(raw)
            /\ pc' = "start"
            /\ err' = err
    /\ UNCHANGED <<status1, min_blocks, blocks, repeats_used, total_waste_s,
                   sel, entries, next_block, findings, seeds>>
    /\ UNCHANGED <<process_vars, raw, flat_vars, cli_vars, phase2_vars>>

NextLoad == LoadConfig

SpecLoad == InitLoad /\ [][NextLoad]_vars

----------------------------------------------------------------------------
(* expand_flat_to_playlist_entries on a flat config and a probe. *)

InitFlat ==
    /\ flat_cfg \in FlatConfigs
    /\ probe \in Probes(flat_cfg)
    /\ flat_entries = <<>>
    /\ cfg = NoConfig
    /\ pc = "flat"
    /\ Idle
    /\ str_hash = ZeroHash
    /\ raw = NoDocument
    /\ NoCliRun
    /\ NoPhase2Run

ExpandFlat ==
    /\ pc = "flat"
    /\ flat_entries' = expand_flat_to_playlist_entries(flat_cfg, probe)
    /\ pc' = "expanded"
    /\ UNCHANGED <<cfg, err, status1, min_blocks, blocks, repeats_used, total_waste_s,
                   sel, entries, next_block, findings, seeds>>
    /\ UNCHANGED <<process_vars, raw, flat_cfg, probe, cli_vars, phase2_vars>>

NextFlat == ExpandFlat

SpecFlat == InitFlat /\ [][NextFlat]_vars

----------------------------------------------------------------------------
(* cmd_verify: verify_yaml_against_config on any playlist file.  `entries`  *)
(* holds the paths of playlist.items.                                       *)

\* one repeatable item of duration 1 and one item of duration block_s
VerifyConfigs ==
    {ChannelConfig(SolverConfig(MaxDur, flag, overflow, 1),
                   BumpersConfig(slots, "round_robin", <<BumperPoolConfig("ids", 1, 1)>>),
                   <<PoolP>>, MixItems(<<1, MaxDur>>, <<1, 1>>)) :
        flag \in BOOLEAN, overflow \in 0..1, slots \in 1..2}

\* a path the config does not list
UnknownPath == Path("x", 1, <<>>)

\* the paths a playlist file may hold
YamlPaths(c) ==
    bumper_set(c) \cup {c.items[i].path : i \in DOMAIN c.items} \cup {UnknownPath}

InitVerify ==
    /\ cfg \in VerifyConfigs
    /\ pc = "yaml"
    /\ err = ""
    /\ status1 = ""
    /\ min_blocks = 0
    /\ blocks = <<>>
    /\ repeats_used = 0
    /\ total_waste_s = 0
    /\ sel = NoSelector
    /\ entries \in UNION {[1..n -> YamlPaths(cfg)] : n \in 0..MaxPlaylist}
    /\ next_block = 0
    /\ findings = {}
    /\ seeds = NoSeeds
    /\ prev = NoRun
    /\ str_hash = ZeroHash
    /\ raw = NoDocument
    /\ NoFlatRun
    /\ NoCliRun
    /\ NoPhase2Run

\* verify_yaml_against_config(cfg, args.yaml); a KeyError is not caught by
\* cmd_verify, which catches VerifyError only
VerifyYaml ==
    /\ pc = "yaml"
    /\ IF VerifyRaises(cfg, entries)
       THEN Fail("KeyError") /\ findings' = findings
       ELSE /\ findings' = verify_yaml_against_config(cfg, entries)
            /\ pc' = "verified"
            /\ err' = err
    /\ UNCHANGED <<cfg, status1, min_blocks, blocks, repeats_used, total_waste_s,
                   sel, entries, next_block, seeds>>
    /\ UNCHANGED <<process_vars, raw, flat_vars, cli_vars, phase2_vars>>

NextVerify == VerifyYaml

SpecVerify == InitVerify /\ [][NextVerify]_vars

----------------------------------------------------------------------------
(* The properties checked. *)

Solved == pc \in {"assemble", "built", "verified"}
Emitted == pc \in {"built", "verified"}

ItemDuration(i) == cfg.items[i].duration_s

\* the items the block holds as base items (the long item or the base short
\* items) and as repeats
BaseOf(block) == {block.items[j] : j \in 1..block.base_items_count}
RepeatsOf(block) == {block.items[j] : j \in (block.base_items_count + 1)..Len(block.items)}

\* An assignment f of all items to blocks 0..j-1 that satisfies the base
\* constraints: a block with a long item holds that item alone, the others
\* hold at most the ceiling, the items of a sequential pool are in
\* nondecreasing block index along their (season, episode, path) order.
BaseAssignment(c, f, j) ==
    /\ \A b \in 0..(j - 1) :
          LET here == {i \in DOMAIN c.items : f[i] = b} IN
          IF \E i \in here : IsLong(c, c.items[i])
          THEN Cardinality(here) = 1
          ELSE SumOver(here, Durations(c)) <= ceiling_s(c)
    /\ \A i, k \in DOMAIN c.items :
          (/\ c.items[i].pool = c.items[k].pool
           /\ \E p \in DOMAIN c.pools :
                 c.pools[p].name = c.items[i].pool /\ c.pools[p].sequential
           /\ EpisodeBefore(c.items[i], c.items[k]))
          => f[i] <= f[k]

Assignable(c, j) == \E f \in [DOMAIN c.items -> 0..(j - 1)] : BaseAssignment(c, f, j)

\* C1 (as claimed): the playlist solve_to_yaml_obj assembles yields no ERROR
\* finding when the verifier runs on it with the same config.
C1_VerifierAgreement == pc = "verified" => findings = {}

C3_SafeUpperBound ==
    (pc = "error" /\ status1 = "INFEASIBLE") => ~Assignable(cfg, Len(cfg.items))

\* C4 (as claimed): in the emitted playlist the occurrences of the items of
\* each sequential pool are nondecreasing in (season, episode).
C4_SequentialOrder ==
    Emitted =>
        \A k, m \in 1..Len(entries) :
            (/\ k < m
             /\ is_content(cfg, entries[k])
             /\ is_content(cfg, entries[m])
             /\ content_by_path(cfg, entries[k]).pool = "tv"
             /\ content_by_path(cfg, entries[m]).pool = "tv")
            => ~PairLess(<<content_by_path(cfg, entries[m]).season,
                           content_by_path(cfg, entries[m]).episode>>,
                         <<content_by_path(cfg, entries[k]).season,
                           content_by_path(cfg, entries[k]).episode>>)

\* the draws from bumper pool p so far, in order
PoolDraws(p) ==
    Filter(entries, {cfg.bumpers.pools[p].items[j].path : j \in DOMAIN cfg.bumpers.pools[p].items})

\* C5 (as claimed): for each bumper pool with M > 1 items, two draws of the
\* same path from that pool are at least M draws apart.
C5_ExhaustBeforeRepeat ==
    \A p \in DOMAIN cfg.bumpers.pools :
        LET M == Len(cfg.bumpers.pools[p].items)
            draws == PoolDraws(p)
        IN M > 1 =>
             \A k, m \in 1..Len(draws) : (k < m /\ draws[k] = draws[m]) => m - k >= M

\* C6 (as claimed): the assembled cycle starts with a bumper run, ends with
\* content, and every maximal bumper run has length exactly slots_per_break.
C6_RunStructure ==
    Emitted =>
        LET runs == Runs(cfg, entries) IN
        /\ runs[1].is_b
        /\ ~runs[Len(runs)].is_b
        /\ \A k \in 1..Len(runs) : runs[k].is_b => runs[k].len = cfg.bumpers.slots_per_break

\* C7: in every returned block that is not a long block the durations of all
\* items, base items and repeats together, sum to at most the ceiling.
C7_Capacity ==
    Solved =>
        \A k \in 1..Len(blocks) :
            ~blocks[k].is_long =>
                SumSeq([j \in 1..Len(blocks[k].items) |-> ItemDuration(blocks[k].items[j])])
                    <= cfg.solver.block_s + cfg.solver.allow_short_overflow_s

\* C7 witness: a returned non-long block that holds a repeat and is filled to
\* the ceiling.
C7_Witness ==
    /\ Solved
    /\ \E k \in 1..Len(blocks) :
          /\ ~blocks[k].is_long
          /\ blocks[k].repeat_items_count > 0
          /\ blocks[k].waste_s = 0

\* C8: with longform_consumes_block set, a returned block that contains an
\* item with duration_s >= block_s holds exactly that item and is flagged
\* is_long.
C8_SoloLong ==
    (Solved /\ cfg.solver.longform_consumes_block) =>
        \A k \in 1..Len(blocks) :
            (\E j \in 1..Len(blocks[k].items) :
                ItemDuration(blocks[k].items[j]) >= cfg.solver.block_s)
            => (Len(blocks[k].items) = 1 /\ blocks[k].is_long)

\* C8 witness: a long block is returned next to a block that holds a repeat,
\* under an overflow allowance that would let a short item join the long one.
C8_Witness ==
    /\ Solved
    /\ cfg.solver.longform_consumes_block
    /\ cfg.solver.allow_short_overflow_s > 0
    /\ \E k \in 1..Len(blocks) : blocks[k].is_long
    /\ \E k \in 1..Len(blocks) : blocks[k].repeat_items_count > 0

\* C9: every item of the config is a base item of exactly one returned block,
\* and its path is in the emitted playlist.
C9_Coverage ==
    /\ Solved =>
          \A i \in DOMAIN cfg.items :
              Cardinality({k \in 1..Len(blocks) : i \in BaseOf(blocks[k])}) = 1
    /\ Emitted =>
          \A i \in DOMAIN cfg.items : Count(entries, cfg.items[i].path) >= 1

\* C9 witness: a playlist of three items over two blocks, one of them with a
\* repeat, has been emitted.
C9_Witness ==
    /\ Emitted
    /\ Len(cfg.items) = 3
    /\ Len(blocks) = 2
    /\ repeats_used > 0

\* C10: in the emitted playlist a path that is not repeatable occurs at most
\* once and a repeatable path at most 1 + max_extra_uses times.
C10_RepeatBounds ==
    Emitted =>
        \A i \in DOMAIN cfg.items :
            Count(entries, cfg.items[i].path) <=
                (IF cfg.items[i].repeatable THEN 1 + cfg.items[i].max_extra_uses ELSE 1)

\* C10 witness: a repeatable item with two extra uses occurs three times, next
\* to an item that is not repeatable.
C10_Witness ==
    /\ Emitted
    /\ \E i \in DOMAIN cfg.items :
          /\ cfg.items[i].repeatable
          /\ cfg.items[i].max_extra_uses = 2
          /\ Count(entries, cfg.items[i].path) = 3
    /\ \E i \in DOMAIN cfg.items : ~cfg.items[i].repeatable

----------------------------------------------------------------------------
(* Claims on determinism and on the guide flag. *)

\* generate.py: the PlaylistEntry list built from the cycle's paths (bumpers
\* carry media type other_video, content items episode)
CycleEntries(c, es) ==
    [k \in DOMAIN es |->
        PlaylistEntry(es[k], IF es[k] \in bumper_set(c) THEN "other_video" ELSE "episode")]

\* C11 (as claimed): a second run on the same config and the same non-zero
\* seed returns the same blocks and emits the same cycle, bumper picks
\* included, as the first run.
C11_Determinism ==
    (prev.ran /\ Emitted) => (blocks = prev.blocks /\ entries = prev.entries)

\* C12 (as claimed): in the playlist of the solver path an item has
\* include_in_guide true exactly when no earlier item has its path.
C12_GuideFirstOnly ==
    Emitted =>
        LET items == PlaylistItems(CycleEntries(cfg, entries)) IN
        \A k \in DOMAIN items :
            items[k].include_in_guide <=> (\A j \in 1..(k - 1) : items[j].path # items[k].path)

\* C13 (as claimed): when the flat expansion emits n > 1 consecutive copies of
\* an item, the first copy has include_in_guide true and the others false.
C13_FlatGuideFirstCopy ==
    pc = "expanded" =>
        \A k \in DOMAIN flat_entries :
            flat_entries[k].include_in_guide <=>
                (k = 1 \/ flat_entries[k - 1].path # flat_entries[k].path)

----------------------------------------------------------------------------
(* Claims on the bumper selector. *)

\* the pool a bumper path belongs to
PoolOf(c, path) ==
    CHOOSE p \in DOMAIN c.bumpers.pools :
        \E j \in DOMAIN c.bumpers.pools[p].items : c.bumpers.pools[p].items[j].path = path

\* the bumper entries of the cycle so far, in order
BumperDraws == Filter(entries, bumper_set(cfg))

\* the k-th slot (from 1) is filled from pool ((k - 1) mod P) + 1, and the
\* round-robin index has advanced once per slot
RoundRobinOrder ==
    /\ sel.rr_index = Len(BumperDraws)
    /\ \A k \in 1..Len(BumperDraws) :
          PoolOf(cfg, BumperDraws[k]) = ((k - 1) % Len(cfg.bumpers.pools)) + 1

\* C14: the draws from a pool of M items split into consecutive cycles of M
\* draws; no item occurs twice within a cycle, so a complete cycle holds
\* every item exactly once, and the bag holds what is left of the cycle.
C14_BagCycles ==
    \A p \in DOMAIN cfg.bumpers.pools :
        LET M == Len(cfg.bumpers.pools[p].items)
            draws == PoolDraws(p)
            bag == sel.cyclers[p].bag
            done == Len(draws) % M
        IN /\ \A k, m \in 1..Len(draws) :
                 (k < m /\ (k - 1) \div M = (m - 1) \div M) => draws[k] # draws[m]
           /\ Len(bag) = (M - done) % M
           /\ \A j \in 1..Len(bag) :
                 \A k \in (Len(draws) - done + 1)..Len(draws) : bag[j].path # draws[k]

\* C14 witness: a pool of three items has been drawn through two whole
\* cycles, the second one starting with a refill after a recorded last path.
C14_Witness ==
    \E p \in DOMAIN cfg.bumpers.pools :
        /\ Len(cfg.bumpers.pools[p].items) = 3
        /\ Len(PoolDraws(p)) = 6
        /\ sel.cyclers[p].bag = <<>>

\* C15: two consecutive draws from a pool of two or more items (of pairwise
\* distinct paths, as the data model has them) never return the same path, a
\* refill between them included; the cycler's last path is the path of its
\* latest draw.
C15_NoBackToBack ==
    \A p \in DOMAIN cfg.bumpers.pools :
        LET draws == PoolDraws(p) IN
        /\ Len(cfg.bumpers.pools[p].items) >= 2 =>
              \A k \in 1..(Len(draws) - 1) : draws[k] # draws[k + 1]
        /\ sel.cyclers[p].last_path = IF draws = <<>> THEN NoPath ELSE draws[Len(draws)]

\* C15 witness: a pool of two items has been drawn three times, so the third
\* draw followed a refill.
C15_Witness ==
    \E p \in DOMAIN cfg.bumpers.pools :
        /\ Len(cfg.bumpers.pools[p].items) = 2
        /\ Len(PoolDraws(p)) = 3

\* C16: under round_robin the k-th slot (counted from 0 over all breaks) is
\* filled from pool k mod P in declaration order; the index advances by one
\* per slot and is never reset between breaks.
C16_RoundRobin ==
    cfg.bumpers.mixing_strategy = "round_robin" => RoundRobinOrder

\* C16 witness: two pools, one slot per break, three breaks: the second break
\* takes the second pool and the third break the first pool again.
C16_Witness ==
    /\ cfg.bumpers.mixing_strategy = "round_robin"
    /\ Len(cfg.bumpers.pools) = 2
    /\ cfg.bumpers.slots_per_break = 1
    /\ Len(BumperDraws) = 3

\* C17: under weighted, when every weight is zero or negative, the pools are
\* chosen exactly as under round_robin.
C17_WeightedFallback ==
    (/\ cfg.bumpers.mixing_strategy = "weighted"
     /\ \A p \in DOMAIN cfg.bumpers.pools : cfg.bumpers.pools[p].weight <= 0)
    => RoundRobinOrder

\* C17 witness: weighted mixing over three pools with weights zero and
\* negative has filled four slots.
C17_Witness ==
    /\ cfg.bumpers.mixing_strategy = "weighted"
    /\ Len(cfg.bumpers.pools) = 3
    /\ \A p \in DOMAIN cfg.bumpers.pools : cfg.bumpers.pools[p].weight <= 0
    /\ \E p \in DOMAIN cfg.bumpers.pools : cfg.bumpers.pools[p].weight < 0
    /\ \E p \in DOMAIN cfg.bumpers.pools : cfg.bumpers.pools[p].weight = 0
    /\ Len(BumperDraws) = 4

----------------------------------------------------------------------------
(* Claims on the seed boundary and on solver failure. *)

\* C18: solve_to_yaml_obj never solves with seed 0.  With seed 0 it raises
\* GenerateError before the solver and the selector are reached; otherwise
\* Phase 1, the tie-breaker, Phase 2, SolveResult.seed and the bumper
\* selector all carry the config's non-zero seed.
C18_SeedBoundary ==
    /\ err = "GenerateError" => cfg.solver.seed = 0
    /\ cfg.solver.seed = 0 =>
          /\ seeds = NoSeeds
          /\ sel = NoSelector
          /\ status1 = ""
          /\ blocks = <<>>
          /\ pc \in {"start", "error"}
          /\ pc = "error" => err = "GenerateError"
    /\ \A f \in DOMAIN seeds :
          seeds[f] # None => (seeds[f] = cfg.solver.seed /\ seeds[f] # 0)
    /\ Solved =>
          /\ \A f \in DOMAIN seeds : seeds[f] = cfg.solver.seed
          /\ sel.seed = seeds.result
          /\ sel.seed # 0

\* C18 witness: a config with items and seed 0 has been rejected.
C18_Witness ==
    /\ pc = "error"
    /\ err = "GenerateError"
    /\ cfg.solver.seed = 0
    /\ Len(cfg.items) > 0

\* the state after a failed solve: nothing was returned or built
NothingReturned ==
    /\ blocks = <<>>
    /\ repeats_used = 0
    /\ total_waste_s = 0
    /\ sel = NoSelector
    /\ entries = <<>>

----------------------------------------------------------------------------
(* Claims on load_config. *)

\* every path of a document: those of the content items, then those of the
\* bumper items, pool after pool
RECURSIVE BumperPathsFrom(_, _)
BumperPathsFrom(pools, p) ==
    IF p > Len(pools) THEN <<>>
    ELSE [j \in DOMAIN pools[p].items |-> pools[p].items[j].path]
         \o BumperPathsFrom(pools, p + 1)

DocumentPaths(doc) ==
    [i \in DOMAIN LoadedItems(doc.pools, 1) |-> LoadedItems(doc.pools, 1)[i].path]
    \o BumperPathsFrom(doc.bumpers.pools, 1)

\* C20 (as claimed): load_config rejects every document in which a path is
\* used twice among the content pools and the bumper pools, so a document it
\* accepts has pairwise distinct paths.
C20_RejectsDuplicatePaths ==
    pc = "start" =>
        \A i, j \in DOMAIN DocumentPaths(raw) :
            i # j => DocumentPaths(raw)[i] # DocumentPaths(raw)[j]

----------------------------------------------------------------------------
(* solve_minimal_cycle with the objective of Phase 2.  `tie` holds the      *)
(* weights of the tie-breaker, `status2` the status of the second Solve and *)
(* `sol` the values of its variables.                                       *)

InitPhase2 ==
    /\ cfg \in Phase2Configs
    /\ pc = "start"
    /\ Idle
    /\ str_hash = ZeroHash
    /\ raw = NoDocument
    /\ NoFlatRun
    /\ NoCliRun
    /\ NoPhase2Run

\* solve_minimal_cycle from the end of Phase 1 to its return
SolveMinimalCycle ==
    /\ pc = "phase2"
    /\ \E w \in TieWeights(cfg, ub_total(cfg)) :
       \E o \in Phase2Outcomes(cfg, ub_total(cfg), min_blocks, w) :
          /\ tie' = w
          /\ status2' = o.status
          /\ sol' = o.sol
          /\ IF StatusOK(o.status)
             THEN LET result == SolveResult(cfg, o.sol) IN
                  /\ blocks' = result.blocks
                  /\ repeats_used' = result.repeats_used
                  /\ total_waste_s' = result.total_waste_s
                  /\ seeds' = [seeds EXCEPT !.tie_breaker = cfg.solver.seed,
                                            !.phase2 = cfg.solver.seed,
                                            !.result = result.seed]
                  /\ pc' = "solved"
                  /\ err' = err
             ELSE /\ Fail("Phase2")
                  /\ seeds' = [seeds EXCEPT !.tie_breaker = cfg.solver.seed,
                                            !.phase2 = cfg.solver.seed]
                  /\ UNCHANGED <<blocks, repeats_used, total_waste_s>>
    /\ UNCHANGED <<cfg, status1, min_blocks, sel, entries, next_block, findings>>
    /\ UNCHANGED <<process_vars, raw, flat_vars, cli_vars>>

NextPhase2 ==
    \/ SolvePhase1
    \/ SolveMinimalCycle

SpecPhase2 == InitPhase2 /\ [][NextPhase2]_vars

----------------------------------------------------------------------------
(* cli.py, cmd_solve: `cli_cfg` is the config of cmd_solve after the seed   *)
(* was resolved, `args` the overrides of the command line, and `cfg` the    *)
(* cfg2 of solve_to_yaml_obj.                                               *)

\* _apply_solver_overrides: int(round(float(minutes) * 60.0)) for whole
\* minutes, bool(...) for the flag
apply_solver_overrides(c, a) ==
    LET s1 == IF a.block_minutes # None
              THEN [c.solver EXCEPT !.block_s = a.block_minutes * 60]
              ELSE c.solver
        s2 == IF a.allow_short_overflow_minutes # None
              THEN [s1 EXCEPT !.allow_short_overflow_s = a.allow_short_overflow_minutes * 60]
              ELSE s1
        s3 == IF a.longform_consumes_block # None
              THEN [s2 EXCEPT !.longform_consumes_block = (a.longform_consumes_block # 0)]
              ELSE s2
    IN [c EXCEPT !.solver = s3]

InitCli ==
    /\ cli_cfg \in CliConfigs
    /\ args \in CliArgs
    /\ cfg = NoConfig
    /\ pc = "cli"
    /\ Idle
    /\ str_hash = ZeroHash
    /\ raw = NoDocument
    /\ NoFlatRun
    /\ NoPhase2Run

\* solve_to_yaml_obj(cfg, ..., block_minutes=..., ...): cfg2
ApplyOverrides ==
    /\ pc = "cli"
    /\ cfg' = apply_solver_overrides(cli_cfg, args)
    /\ pc' = "start"
    /\ UNCHANGED <<err, status1, min_blocks, blocks, repeats_used, total_waste_s,
                   sel, entries, next_block, findings, seeds>>
    /\ UNCHANGED <<process_vars, raw, flat_vars, cli_vars, phase2_vars>>

\* findings = verify_yaml_against_config(cfg, args.out), cfg being the
\* config of cmd_solve
CliVerify ==
    /\ pc = "built"
    /\ IF VerifyRaises(cli_cfg, entries)
       THEN Fail("KeyError") /\ findings' = findings
       ELSE /\ findings' = verify_yaml_against_config(cli_cfg, entries)
            /\ pc' = "verified"
            /\ err' = err
    /\ UNCHANGED <<cfg, status1, min_blocks, blocks, repeats_used, total_waste_s,
                   sel, entries, next_block, seeds>>
    /\ UNCHANGED <<process_vars, raw, flat_vars, cli_vars, phase2_vars>>

NextCli ==
    \/ ApplyOverrides
    \/ SolvePhase1
    \/ SolvePhase2
    \/ FailPhase2
    \/ AssembleBlock
    \/ CliVerify

SpecCli == InitCli /\ [][NextCli]_vars

----------------------------------------------------------------------------
(* Claims on the verifier. *)

\* the verifier has been called on a playlist long enough for its checks
Verified ==
    /\ pc \in {"verified", "error"}
    /\ Len(entries) >= cfg.bumpers.slots_per_break + 1

IsBumperAt(k) == entries[k] \in bumper_set(cfg)

\* the maximal runs <<i, j>> of bumper entries (b = TRUE) or of content
\* entries (b = FALSE)
MaximalRuns(b) ==
    {t \in (1..Len(entries)) \X (1..Len(entries)) :
        /\ t[1] <= t[2]
        /\ \A k \in t[1]..t[2] : IsBumperAt(k) = b
        /\ t[1] > 1 => IsBumperAt(t[1] - 1) # b
        /\ t[2] < Len(entries) => IsBumperAt(t[2] + 1) # b}

\* C21 (as claimed): on a playlist of at least slots_per_break + 1 entries
\* the verifier returns and does not raise, and a path that is neither a
\* bumper path nor a content path is reported as an unknown path.
C21_VerifierReturns ==
    Verified =>
        /\ pc # "error"
        /\ (\E k \in 1..Len(entries) :
                ~IsBumperAt(k) /\ \A i \in DOMAIN cfg.items : cfg.items[i].path # entries[k])
           => "unknown_paths" \in findings

\* C22 (as claimed): on a playlist of at least slots_per_break + 1 entries a
\* run-structure error is reported exactly when the playlist does not start
\* with a bumper run, or ends with one, or holds a bumper run of a length
\* other than slots_per_break.
C22_RunStructureIff ==
    Verified =>
        ((findings \cap {"leading_not_bumper", "not_start_with_bumpers",
                         "ends_with_bumpers", "bumper_run_length"}) # {}
         <=> \/ ~IsBumperAt(1)
             \/ IsBumperAt(Len(entries))
             \/ \E t \in MaximalRuns(TRUE) : t[2] - t[1] + 1 # cfg.bumpers.slots_per_break)

\* the duration of the content item of a path, 0 for a path without one
ContentDuration(path) ==
    IF \E i \in DOMAIN cfg.items : cfg.items[i].path = path
    THEN (CHOOSE it \in Range(cfg.items) : it.path = path).duration_s
    ELSE 0

\* the content run <<i, j>> holds a long item under the long-form flag
RunHasLong(t) ==
    /\ cfg.solver.longform_consumes_block
    /\ \E k \in t[1]..t[2] : ContentDuration(entries[k]) >= cfg.solver.block_s

RunDuration(t) == SumSeq([k \in 1..(t[2] - t[1] + 1) |-> ContentDuration(entries[t[1] + k - 1])])

\* C23 (as claimed): a duration error is reported exactly for the content
\* runs that hold a long item next to another entry under the long-form
\* flag, or hold no such long item and sum to more than block_s +
\* allow_short_overflow_s; a run of exactly one long item is never reported.
C23_BlockDurationIff ==
    Verified =>
        /\ "long_block_not_solo" \in findings
              <=> \E t \in MaximalRuns(FALSE) : RunHasLong(t) /\ t[2] > t[1]
        /\ "block_exceeds_capacity" \in findings
              <=> \E t \in MaximalRuns(FALSE) :
                     /\ ~RunHasLong(t)
                     /\ RunDuration(t) > cfg.solver.block_s + cfg.solver.allow_short_overflow_s

----------------------------------------------------------------------------
(* Claims on the flat expansion. *)

\* the target the claim gives item i, or None
ClaimedTarget(i) ==
    LET it == flat_cfg.items[i] IN
    IF it.loop_to_s # None THEN it.loop_to_s
    ELSE IF /\ it.auto_loop
            /\ flat_cfg.short_loop.loop_to_s > 0
            /\ probe[it.path] < flat_cfg.short_loop.under_s
         THEN flat_cfg.short_loop.loop_to_s
         ELSE None

\* max(1, ceil(target / duration)) for a positive target, 1 otherwise
ClaimedCopies(i) ==
    LET t == ClaimedTarget(i)
        d == probe[flat_cfg.items[i].path]
    IN IF t # None /\ t > 0
       THEN CHOOSE n \in 1..t : n * d >= t /\ (n = 1 \/ (n - 1) * d < t)
       ELSE 1

\* the entries emitted before those of item i
ClaimedOffset(i) == SumSeq([k \in 1..(i - 1) |-> ClaimedCopies(k)])

\* C24: the flat expansion emits, item by item in config order, n consecutive
\* entries of the item, n = max(1, ceil(target / duration)) under a positive
\* target and 1 otherwise, the target being the explicit loop_to or else the
\* global loop_short_to of an auto-looped item probed below loop_short_under.
C24_FlatCopies ==
    pc = "expanded" =>
        /\ Len(flat_entries) = ClaimedOffset(Len(flat_cfg.items) + 1)
        /\ \A i \in DOMAIN flat_cfg.items : \A j \in 1..ClaimedCopies(i) :
              flat_entries[ClaimedOffset(i) + j].path = flat_cfg.items[i].path

\* an explicit target and the global target both lead to several copies
C24_Witness ==
    /\ pc = "expanded"
    /\ Len(flat_cfg.items) = 2
    /\ flat_cfg.items[1].loop_to_s = MaxLoopTo /\ ClaimedCopies(1) = 2
    /\ flat_cfg.items[2].loop_to_s = None /\ ClaimedCopies(2) > 2
    /\ Len(flat_entries) > 4

----------------------------------------------------------------------------
(* Claims on Phase 2 and the extraction. *)

Returned == pc = "solved"

\* the used candidate block that has k - 1 used candidate blocks below it
UsedCandidate(k) ==
    CHOOSE b \in DOMAIN sol.y :
        /\ sol.y[b] = 1
        /\ Cardinality({x \in DOMAIN sol.y : sol.y[x] = 1 /\ x < b}) = k - 1

\* C25: solve_minimal_cycle returns the used candidate blocks in ascending
\* candidate index, numbered 0..K-1, and inside a non-long block the base
\* items in ascending item index followed by the repeats in ascending item
\* index.
C25_BlockOrder ==
    Returned =>
        /\ Len(blocks) = Cardinality({b \in DOMAIN sol.y : sol.y[b] = 1})
        /\ \A k \in DOMAIN blocks :
              LET block == blocks[k]
                  n == block.base_items_count
              IN /\ block.index = k - 1
                 /\ block.is_long = (LongIn(cfg, sol, UsedCandidate(k)) # {})
                 /\ ~block.is_long =>
                       /\ Len(block.items) = n + block.repeat_items_count
                       /\ {block.items[j] : j \in 1..n} = ShortIn(cfg, sol, UsedCandidate(k))
                       /\ {block.items[j] : j \in (n + 1)..Len(block.items)}
                             = RepeatIn(cfg, sol, UsedCandidate(k))
                       /\ \A i, j \in 1..n : i < j => block.items[i] < block.items[j]
                       /\ \A i, j \in (n + 1)..Len(block.items) :
                             i < j => block.items[i] < block.items[j]

\* three blocks, one of them with two base items and two repeats
C25_Witness ==
    /\ Returned
    /\ Len(blocks) = 3
    /\ \E k \in DOMAIN blocks :
          /\ ~blocks[k].is_long
          /\ blocks[k].base_items_count = 2
          /\ blocks[k].repeat_items_count = 2

\* the sum the claim names: the waste of the used blocks without a long
\* item, the repeat costs and the consecutive-dominance penalties
ClaimedCost(a) ==
    SumOver({b \in DOMAIN a.y : a.y[b] = 1 /\ LongIn(cfg, a, b) = {}},
            [b \in DOMAIN a.y |-> ceiling_s(cfg) - used_short_time(cfg, a, b)])
    + RepeatTerms(cfg, a) + DiversityTerms(cfg, a)

\* C26 (as claimed): whatever the tie-breaker weights, a solution returned
\* with status OPTIMAL has the least sum of waste over the returned non-long
\* blocks, repeat cost and consecutive-dominance penalty among the
\* assignments that use min_blocks blocks and satisfy the constraints.
C26_OptimalCost ==
    (Returned /\ status2 = "OPTIMAL") =>
        \A z \in Phase2Model(cfg, ub_total(cfg), min_blocks) :
            ClaimedCost(sol) <= ClaimedCost(z)

\* C27 (as claimed): in every Phase-2 solution dominant[b][p] is 1 exactly
\* when the time of pool p in candidate block b reaches the pool's threshold,
\* for every threshold >= 0, and consec_dom[b][p] is 1 exactly when
\* dominant[b][p] and dominant[b + 1][p] are 1.
C27_DominantIff ==
    Returned =>
        /\ \A t \in DOMAIN sol.dominant :
              sol.dominant[t] = 1
                 <=> pool_time(cfg, sol, t[1], t[2])
                        >= cfg.pools[t[2]].dominant_block_threshold_s
        /\ \A t \in DOMAIN sol.consec_dom :
              sol.consec_dom[t] = 1
                 <=> (sol.dominant[t] = 1 /\ sol.dominant[<<t[1] + 1, t[2]>>] = 1)

\* C28 (as claimed): in every Phase-2 solution a repeat sits in a used
\* block, r[i][b] = 1 implies y[b] = 1, so that every repeat of the solution
\* is in a returned block and repeats_used is the number of repeat
\* placements of the solution.
C28_RepeatsInUsedBlocks ==
    Returned =>
        /\ \A i \in DOMAIN sol.r : \A b \in sol.r[i] : sol.y[b] = 1
        /\ repeats_used = SumOver(DOMAIN sol.r, [i \in DOMAIN sol.r |-> Cardinality(sol.r[i])])
        /\ \A i \in DOMAIN sol.r :
              Cardinality(sol.r[i])
                 = SumSeq([k \in DOMAIN blocks |->
                             Cardinality({j \in (blocks[k].base_items_count + 1)..Len(blocks[k].items) :
                                             blocks[k].items[j] = i})])

\* C29: after a successful Phase 1, every assignment that satisfies the
\* Phase-1 constraints with min_blocks used blocks is, with all repeats 0, a
\* solution of the Phase-2 constraints; Phase 2 is then never infeasible; and
\* the y, xs, xl part of every Phase-2 solution satisfies the Phase-1
\* constraints.
C29_Phase2RefinesPhase1 ==
    /\ pc = "phase2" =>
          \A a \in Phase1Solutions(cfg, ub_total(cfg)) :
              UsedCount(a) = min_blocks =>
                  \E z \in Phase2Model(cfg, ub_total(cfg), min_blocks) :
                      /\ z.y = a.y
                      /\ z.blk = a.blk
                      /\ \A i \in DOMAIN z.r : z.r[i] = {}
    /\ status2 # "INFEASIBLE"
    /\ Returned =>
          /\ PrefixSymmetry(sol.y)
          /\ Phase1Constraints(cfg, [y |-> sol.y, blk |-> sol.blk])

\* Phase 2 returned a solution with a repeat where the greedy bound leaves
\* a candidate block unused
C29_Witness ==
    /\ Returned
    /\ min_blocks < ub_total(cfg)
    /\ \E i \in DOMAIN sol.r : sol.r[i] # {}

----------------------------------------------------------------------------
(* Claims on the command line. *)

\* C30 (as claimed): cmd_solve verifies against the solver settings the
\* playlist was solved with, overrides of the command line included: a
\* playlist that keeps the capacity and solo-long rules under those settings
\* gets no block-duration error.
C30_VerifiesEffectiveSettings ==
    pc = "verified" =>
        (BlockFindings(cfg, entries) = {}
            => findings \cap {"long_block_not_solo", "block_exceeds_capacity"} = {})

====
